---------------------------- MODULE Spec2Model ----------------------------
(***************************************************************************)
(* Model of the equity-screener Streamlit application:                     *)
(*   - the integrity report (reports/data_provider.py, reports/checks.py,  *)
(*     reports/renderers.py, reports/integrity_report.py);                 *)
(*   - the TradingView symbol and logo resolution                          *)
(*     (analyses/equity_analysis/tradingview.py);                          *)
(*   - the selection kept in the session by the Universe grid and the      *)
(*     guards of the analysis and trends pages (dashboards/universe/       *)
(*     grid.py, analyses/equity_analysis/equity_analysis.py,               *)
(*     analyses/equity_trends/);                                           *)
(*   - the display formatters (analyses/equity_analysis/formatters.py);    *)
(*   - the universe page and the MIC codes of its rows                     *)
(*     (dashboards/universe/);                                             *)
(*   - the loaders memoized with a time-to-live (reports/data_provider.py, *)
(*     analyses/equity_trends/data_provider.py, tradingview.py), with a    *)
(*     clock in seconds.                                                   *)
(*                                                                         *)
(* Conventions.                                                            *)
(*   Optional values: Python None is the empty tuple <<>>, a present value *)
(*   v is the one-element tuple <<v>>.                                     *)
(*   Decimal values are held in hundredths: the integer 100*d stands for   *)
(*   the Decimal d (0.6 is 60, 100 is 10000).  All comparisons of the      *)
(*   source are exact Decimal comparisons, so they are exact here.         *)
(*   Floating point quotients (percentages, means, medians) are held as    *)
(*   exact fractions [num, den] with den > 0.                              *)
(*   A float passed to a formatter is the decimal m * 10^e, and a text     *)
(*   that is parsed is held as the sequence of its characters.             *)
(***************************************************************************)
EXTENDS Integers, Sequences, FiniteSets, TLC

VARIABLES
    \* ---- integrity report page ----
    equities,        \* the list _load_equities() returns to the page run
    pc,              \* position of the integrity_report.py script
    report,          \* CoverageReport of load_coverage_report(), or None
    summary,         \* overall percentages shown by render_summary, or None
    identityTable,   \* rows of render_coverage_table("Identity Coverage")
    financialTable,  \* rows of render_coverage_table("Financial Coverage")
    crossField,      \* findings of load_cross_field_consistency(), or None
    ratio,           \* findings of load_financial_ratio_consistency(), or None
    plausibility,    \* findings of load_value_plausibility(), or None
    completeness,    \* CompletenessDistribution, or None
    marketCap,       \* MarketCapDistribution, or None
    heatmap,         \* SectorFieldCoverage, or None
    \* ---- _overall_coverage applied to an arbitrary coverage tuple ----
    coverageArg,     \* the tuple of FieldCoverage passed to _overall_coverage
    overallResult,   \* its result, or None
    \* ---- TradingView resolution ----
    tvPc,            \* position of the equity_analysis.py script
    tvArgs,          \* arguments of resolve_tv_symbol for this run
    tier,            \* index of the next search of resolve_tv_symbol
    requests,        \* every HTTP request sent in this run, in order
    responses,       \* the scanner's answer to each request, in order
    tvSymbol,        \* return value of resolve_tv_symbol, or None
    tvLogo,          \* return value of fetch_logo, wrapped, or None
    raised,          \* TRUE when an exception reached the page script
    \* ---- session state and the elements of the page on display ----
    session,         \* st.session_state: the selection of the universe grid
    elements,        \* what the current page run has put on the page
    \* ---- equity trends page ----
    trendsPc,        \* position of the equity_trends.py script
    upstream,        \* answer of retrieve_canonical_equity_history, or None
    history,         \* DataFrame returned by load_history, or None
    trendsRaised,    \* TRUE when an exception reached the trends script
    \* ---- display formatters of the analysis page ----
    fmtCall,         \* the last call of a formatter: name, value, answer
    \* ---- MIC codes of an equity, from the record to the scanner markets ----
    micsList,        \* financials.mics of the record, or None
    micsText,        \* the MICs cell of the grid row: _format_field("MICs", ...)
    micsMarkets,     \* _mics_to_tv_markets of the cell, wrapped, or None
    \* ---- universe page ----
    page,            \* the page on display
    uniPc,           \* position of the universe.py script
    universeDf,      \* DataFrame load_equities() returned to this run, or None
    grid_options,    \* st.session_state["grid_options"], or None when the key is absent
    builds,          \* calls of _build_grid_options in this session
    \* ---- time ----
    clock,           \* seconds since the process started
    \* ---- memoized loaders of the report and trends pages ----
    memo,            \* the cache entry of each report loader, or None
    retrievals,      \* the times retrieve_canonical_equities() was called
    historyMemo,     \* the cache entry of load_history(figi), or None
    historyRetrievals,\* the times retrieve_canonical_equity_history(figi) answered
    \* ---- memoized TradingView lookups ----
    symbolMemo,      \* the cache entry of resolve_tv_symbol for each argument tuple, or None
    logoMemo         \* the cache entry of fetch_logo for each symbol, or None

reportVars == <<equities, pc, report, summary, identityTable, financialTable,
                crossField, ratio, plausibility, completeness, marketCap,
                heatmap>>
overallVars == <<coverageArg, overallResult>>
tvVars == <<tvPc, tvArgs, tier, requests, responses, tvSymbol, tvLogo, raised>>
pageVars == <<session, elements>>
trendsVars == <<trendsPc, upstream, history, trendsRaised>>
fmtVars == <<fmtCall>>
micsVars == <<micsList, micsText, micsMarkets>>
uniVars == <<page, uniPc, universeDf, grid_options, builds>>
timeVars == <<clock>>
memoVars == <<memo, retrievals, historyMemo, historyRetrievals>>
tvMemoVars == <<symbolMemo, logoMemo>>
vars == <<reportVars, overallVars, tvVars, pageVars, trendsVars, fmtVars,
          micsVars,
          uniVars,
          timeVars,
          memoVars,
          tvMemoVars>>

\* what the actions of one part of the application leave alone
notReport == <<overallVars, tvVars, pageVars, trendsVars, fmtVars,
               micsVars,
               uniVars,
               timeVars,
               memoVars,
               tvMemoVars>>
notOverall == <<reportVars, tvVars, pageVars, trendsVars, fmtVars,
                micsVars,
                uniVars,
                timeVars,
                memoVars,
                tvMemoVars>>
notPages == <<reportVars, overallVars, fmtVars,
              micsVars,
              uniVars,
              timeVars,
              memoVars,
              tvMemoVars>>
notFmt == <<reportVars, overallVars, tvVars, pageVars, trendsVars,
            micsVars,
            uniVars,
            timeVars,
            memoVars,
            tvMemoVars>>
notMics == <<reportVars, overallVars, tvVars, pageVars, trendsVars, fmtVars,
             uniVars,
             timeVars,
             memoVars,
             tvMemoVars>>
\* the universe page also writes the selection into the session state
notUni == <<reportVars, overallVars, tvVars, trendsVars, fmtVars, micsVars,
            timeVars,
            memoVars,
            tvMemoVars>>
notTime == <<reportVars, overallVars, tvVars, pageVars, trendsVars, fmtVars,
             micsVars, uniVars,
             memoVars,
             tvMemoVars>>
notMemo == <<reportVars, overallVars, tvVars, pageVars, trendsVars, fmtVars,
             micsVars, uniVars, timeVars,
             tvMemoVars>>
notReportMemo == <<overallVars, tvVars, pageVars, trendsVars, fmtVars,
                   micsVars, uniVars, timeVars,
                   tvMemoVars>>
notTrendsMemo == <<reportVars, overallVars, tvVars, pageVars, fmtVars,
                   micsVars, uniVars, timeVars,
                   tvMemoVars>>
notTvAndMemo == <<reportVars, overallVars, trendsVars, fmtVars, micsVars,
                  uniVars, timeVars, memoVars>>
notTvMemo == <<reportVars, overallVars, tvVars, pageVars, trendsVars,
               fmtVars, micsVars, uniVars, timeVars, memoVars>>

---------------------------------------------------------------------------
(* Bounds of the model *)

\* longest equity list a page run sees
MaxEquities == 2
\* longest coverage tuple passed to _overall_coverage
MaxFields == 3
\* largest total of a FieldCoverage passed to _overall_coverage
MaxTotal == 2

---------------------------------------------------------------------------
(* Optional values, fractions, small helpers *)

None == <<>>
Some(v) == <<v>>
Val(o) == o[1]

Abs(x) == IF x < 0 THEN -x ELSE x

\* a / b as an exact fraction, b > 0
Frac(a, b) == [num |-> a, den |-> b]
FracZero == [num |-> 0, den |-> 1]
FracEq(p, q) == p.num * q.den = q.num * p.den
FracLeq(p, q) == p.num * q.den <= q.num * p.den
FracOfInt(n) == [num |-> n, den |-> 1]

RECURSIVE SumSeq(_)
SumSeq(s) == IF s = <<>> THEN 0 ELSE Head(s) + SumSeq(Tail(s))

Range(s) == {s[i] : i \in DOMAIN s}

---------------------------------------------------------------------------
(* reports/fields.py *)

identity_fields ==
    << <<"name", "Name">>, <<"symbol", "Symbol">>,
       <<"share_class_figi", "FIGI">>, <<"isin", "ISIN">>,
       <<"cusip", "CUSIP">>, <<"cik", "CIK">>, <<"lei", "LEI">> >>

financial_fields ==
    << <<"mics", "MICs">>, <<"currency", "Currency">>,
       <<"last_price", "Last Price">>, <<"market_cap", "Market Cap">>,
       <<"fifty_two_week_min", "52W Min">>,
       <<"fifty_two_week_max", "52W Max">>,
       <<"dividend_yield", "Dividend Yield">>,
       <<"market_volume", "Market Volume">>,
       <<"held_insiders", "Held Insiders">>,
       <<"held_institutions", "Held Institutions">>,
       <<"short_interest", "Short Interest">>,
       <<"share_float", "Share Float">>,
       <<"shares_outstanding", "Shares Outstanding">>,
       <<"revenue_per_share", "Revenue/Share">>,
       <<"profit_margin", "Profit Margin">>,
       <<"gross_margin", "Gross Margin">>,
       <<"operating_margin", "Operating Margin">>,
       <<"free_cash_flow", "Free Cash Flow">>,
       <<"operating_cash_flow", "Operating Cash Flow">>,
       <<"return_on_equity", "ROE">>, <<"return_on_assets", "ROA">>,
       <<"performance_1_year", "1Y Performance">>,
       <<"total_debt", "Total Debt">>, <<"revenue", "Revenue">>,
       <<"ebitda", "EBITDA">>, <<"trailing_pe", "Trailing P/E">>,
       <<"price_to_book", "Price/Book">>,
       <<"trailing_eps", "Trailing EPS">>,
       <<"analyst_rating", "Analyst Rating">>,
       <<"industry", "Industry">>, <<"sector", "Sector">> >>

\* the attribute names of the two groups of a CanonicalEquity
IdentityAttrs == {identity_fields[i][1] : i \in DOMAIN identity_fields}
FinancialAttrs == {financial_fields[i][1] : i \in DOMAIN financial_fields}

\* getattr(obj, attr, None)
getattr(obj, attr) == IF attr \in DOMAIN obj THEN obj[attr] ELSE None

\* mutant: hasattr(equity.financials, attr) in place of "is not None"
has_field_hasattr(equity, attr) == attr \in DOMAIN equity.financials

has_field(equity, attr) == getattr(equity.financials, attr) # None

---------------------------------------------------------------------------
(* CanonicalEquity records the upstream source returns.  The record type   *)
(* belongs to the equity_aggregator package; the attributes the report     *)
(* reads are modelled: the identity and financials groups and the snapshot *)
(* date (an ISO date string, held as its day number).                      *)

Financials(given) ==
    [a \in FinancialAttrs |-> IF a \in DOMAIN given THEN Some(given[a]) ELSE None]

IdentityOf(given) ==
    [a \in IdentityAttrs |-> IF a \in DOMAIN given THEN Some(given[a]) ELSE None]

FullIdentity ==
    IdentityOf([name |-> "ACME", symbol |-> "ACM", share_class_figi |-> "BBG1",
                isin |-> "US1", cusip |-> "C1", cik |-> "K1", lei |-> "L1"])
BareIdentity ==
    IdentityOf([name |-> "BETA", symbol |-> "BET", share_class_figi |-> "BBG2"])

StringAttrs == {"mics", "currency", "analyst_rating", "industry", "sector"}

\* an equity whose first k financial fields (in registry order) are populated
Populated(k) ==
    [identity |-> BareIdentity,
     snapshot_date |-> Some(2),
     financials |->
        [a \in FinancialAttrs |->
            IF \E i \in 1..k : financial_fields[i][1] = a
            THEN (IF a \in StringAttrs THEN Some("x") ELSE Some(100))
            ELSE None]]

\* every range and ratio check fires
AllFlagged ==
    [identity |-> FullIdentity,
     snapshot_date |-> Some(3),
     financials |-> Financials(
        [last_price |-> 10000, fifty_two_week_min |-> 5000,
         fifty_two_week_max |-> 9000, held_insiders |-> 60,
         held_institutions |-> 50, profit_margin |-> 50, gross_margin |-> 10,
         operating_margin |-> 20, dividend_yield |-> 101,
         trailing_pe |-> 100001, return_on_equity |-> 501,
         market_cap |-> 500000, sector |-> "Tech"])]

\* every value sits exactly on, or just inside, its threshold
AtThresholds ==
    [identity |-> FullIdentity,
     snapshot_date |-> Some(2),
     financials |-> Financials(
        [last_price |-> 9400, fifty_two_week_min |-> 5000,
         fifty_two_week_max |-> 9000, held_insiders |-> 55,
         held_institutions |-> 50, profit_margin |-> 10, gross_margin |-> 10,
         operating_margin |-> 10, dividend_yield |-> 100,
         trailing_pe |-> 100000, return_on_equity |-> 500,
         return_on_assets |-> -500, sector |-> "Tech"])]

\* price just below the minimum; one operand of each other check missing
BelowMin ==
    [identity |-> FullIdentity,
     snapshot_date |-> Some(3),
     financials |-> Financials(
        [last_price |-> 4999, fifty_two_week_min |-> 5000,
         fifty_two_week_max |-> 9000, held_institutions |-> 200,
         gross_margin |-> 10, return_on_assets |-> -501,
         sector |-> "Energy"])]

\* the other operand of each check missing, the present one extreme
NoPrice ==
    [identity |-> BareIdentity,
     snapshot_date |-> Some(1),
     financials |-> Financials(
        [fifty_two_week_min |-> 5000, fifty_two_week_max |-> 9000,
         held_insiders |-> 200, profit_margin |-> 50,
         operating_margin |-> 50, trailing_pe |-> -100001,
         market_cap |-> 700000])]

\* price far above the maximum, minimum missing
NoMin ==
    [identity |-> BareIdentity,
     snapshot_date |-> None,
     financials |-> Financials(
        [last_price |-> 10000, fifty_two_week_max |-> 9000,
         return_on_equity |-> 100])]

\* price below the minimum, maximum missing
NoMax ==
    [identity |-> BareIdentity,
     snapshot_date |-> Some(2),
     financials |-> Financials(
        [last_price |-> 4000, fifty_two_week_min |-> 5000,
         return_on_assets |-> 100])]

\* price exactly at max * 1.05
AtTolerance ==
    [identity |-> FullIdentity,
     snapshot_date |-> Some(2),
     financials |-> Financials(
        [last_price |-> 2100, fifty_two_week_min |-> 1000,
         fifty_two_week_max |-> 2000, held_insiders |-> 50,
         held_institutions |-> 56, sector |-> "Energy"])]

\* inverted range with the price between the bounds
Inverted ==
    [identity |-> FullIdentity,
     snapshot_date |-> Some(1),
     financials |-> Financials(
        [last_price |-> 6000, fifty_two_week_min |-> 9000,
         fifty_two_week_max |-> 5000, dividend_yield |-> 5,
         trailing_pe |-> 1500])]

\* a market cap of zero; minimum and maximum of the range equal
ZeroCap ==
    [identity |-> BareIdentity,
     snapshot_date |-> Some(3),
     financials |-> Financials(
        [market_cap |-> 0, fifty_two_week_min |-> 5000,
         fifty_two_week_max |-> 5000, sector |-> "Energy"])]

\* a negative market cap
NegativeCap ==
    [identity |-> BareIdentity,
     snapshot_date |-> Some(3),
     financials |-> Financials(
        [market_cap |-> -250000, last_price |-> 10000,
         operating_margin |-> 20, gross_margin |-> 20, sector |-> "Tech"])]

EquityPool ==
    {Populated(0), Populated(15), Populated(31), AllFlagged, AtThresholds,
     BelowMin, NoPrice, NoMin, NoMax, AtTolerance, Inverted, ZeroCap,
     NegativeCap}

---------------------------------------------------------------------------
(* reports/data_provider.py: coverage *)

\* mutant: the number of distinct non-null values, as _count_distinct counts
_count_populated_distinct(eqs, group, attr) ==
    Cardinality({getattr(getattr(eqs[i], group), attr) : i \in DOMAIN eqs}
                \ {None})

\* sum(1 for eq in equities if getattr(getattr(eq, group, None), attr, None)
\*                              is not None)
RECURSIVE _count_populated(_, _, _)
_count_populated(eqs, group, attr) ==
    IF eqs = <<>> THEN 0
    ELSE (IF getattr(getattr(Head(eqs), group), attr) # None THEN 1 ELSE 0)
         + _count_populated(Tail(eqs), group, attr)

\* mutant: total taken from the field list instead of the equity list
_compute_coverage_total_fields(eqs, group, fields) ==
    LET total == Len(fields)
    IN  [i \in DOMAIN fields |->
            [label |-> fields[i][2],
             count |-> _count_populated(eqs, group, fields[i][1]),
             total |-> total]]

_compute_coverage(eqs, group, fields) ==
    LET total == Len(eqs)
    IN  [i \in DOMAIN fields |->
            [label |-> fields[i][2],
             count |-> _count_populated(eqs, group, fields[i][1]),
             total |-> total]]

_count_distinct(eqs, attr) ==
    Cardinality({getattr(eqs[i].financials, attr) : i \in DOMAIN eqs}
                \ {None})

_count_total_snapshots(eqs) ==
    Cardinality({eqs[i].snapshot_date : i \in DOMAIN eqs} \ {None})

\* the body of load_coverage_report, given what _load_equities() returned
load_coverage_report(eqs) ==
    [total_equities |-> Len(eqs),
     snapshot_date |-> IF eqs # <<>> THEN eqs[1].snapshot_date ELSE None,
     total_snapshots |-> _count_total_snapshots(eqs),
     distinct_sectors |-> _count_distinct(eqs, "sector"),
     distinct_industries |-> _count_distinct(eqs, "industry"),
     identity_coverage |-> _compute_coverage(eqs, "identity", identity_fields),
     financial_coverage |->
        _compute_coverage(eqs, "financials", financial_fields)]

---------------------------------------------------------------------------
(* reports/renderers.py: percentages *)

\* (fc.count / fc.total * 100) if fc.total else 0, for each field
_build_coverage_dataframe(coverage) ==
    [i \in DOMAIN coverage |->
        [Field |-> coverage[i].label,
         Coverage |-> IF coverage[i].total # 0
                      THEN Frac(coverage[i].count * 100, coverage[i].total)
                      ELSE FracZero]]

FracAdd(p, q) == Frac(p.num * q.den + q.num * p.den, p.den * q.den)

\* the sum of the per-field percentages of a coverage tuple
RECURSIVE SumPercentages(_)
SumPercentages(coverage) ==
    IF coverage = <<>> THEN FracZero
    ELSE FracAdd(IF Head(coverage).total # 0
                 THEN Frac(Head(coverage).count * 100, Head(coverage).total)
                 ELSE FracZero,
                 SumPercentages(Tail(coverage)))

\* mutant: the arithmetic mean of the per-field percentages
_overall_coverage_arithmetic(coverage) ==
    IF coverage = <<>> THEN FracZero
    ELSE Frac(SumPercentages(coverage).num,
              SumPercentages(coverage).den * Len(coverage))

RECURSIVE SumCounts(_)
SumCounts(coverage) ==
    IF coverage = <<>> THEN 0
    ELSE Head(coverage).count + SumCounts(Tail(coverage))

RECURSIVE SumTotals(_)
SumTotals(coverage) ==
    IF coverage = <<>> THEN 0
    ELSE Head(coverage).total + SumTotals(Tail(coverage))

_overall_coverage(coverage) ==
    LET total_count == SumCounts(coverage)
        total_possible == SumTotals(coverage)
    IN  IF total_possible = 0 THEN FracZero
        ELSE Frac(total_count * 100, total_possible)

\* the two percentages render_summary computes
render_summary(rep) ==
    [identity_pct |-> _overall_coverage(rep.identity_coverage),
     financials_pct |-> _overall_coverage(rep.financial_coverage)]

---------------------------------------------------------------------------
(* reports/checks.py: the predicates *)

\* mutant: a missing gross margin is read as 0
_profit_exceeds_gross_default_zero(equity) ==
    LET profit == equity.financials.profit_margin
        gross == equity.financials.gross_margin
    IN  profit # None /\ Val(profit) > (IF gross = None THEN 0 ELSE Val(gross))

_profit_exceeds_gross(equity) ==
    LET profit == equity.financials.profit_margin
        gross == equity.financials.gross_margin
    IN  profit # None /\ gross # None /\ Val(profit) > Val(gross)

\* mutant: >= in place of >
_operating_exceeds_gross_inclusive(equity) ==
    LET operating == equity.financials.operating_margin
        gross == equity.financials.gross_margin
    IN  operating # None /\ gross # None /\ Val(operating) >= Val(gross)

_operating_exceeds_gross(equity) ==
    LET operating == equity.financials.operating_margin
        gross == equity.financials.gross_margin
    IN  operating # None /\ gross # None /\ Val(operating) > Val(gross)

pe_threshold == 1000

\* mutant: the sign of the ratio kept (pe > pe_threshold)
_has_extreme_pe_signed(equity) ==
    LET pe == equity.financials.trailing_pe
    IN  pe # None /\ Val(pe) > pe_threshold * 100

_has_extreme_pe(equity) ==
    LET pe == equity.financials.trailing_pe
    IN  pe # None /\ Abs(Val(pe)) > pe_threshold * 100

_has_inverted_range(equity) ==
    LET min_val == equity.financials.fifty_two_week_min
        max_val == equity.financials.fifty_two_week_max
    IN  min_val # None /\ max_val # None /\ Val(min_val) > Val(max_val)

\* mutant: the 5% tolerance applied below the minimum too
_price_outside_range_two_sided(equity) ==
    LET price == equity.financials.last_price
        min_val == equity.financials.fifty_two_week_min
        max_val == equity.financials.fifty_two_week_max
    IN  IF price = None \/ min_val = None \/ max_val = None THEN FALSE
        ELSE \/ Val(price) * 100 < Val(min_val) * 95
             \/ Val(price) * 100 > Val(max_val) * 105

\* price < min_val or price > max_val * Decimal("1.05"); the product of two
\* values in hundredths is in ten-thousandths, so the price is scaled by 100
_price_outside_range(equity) ==
    LET price == equity.financials.last_price
        min_val == equity.financials.fifty_two_week_min
        max_val == equity.financials.fifty_two_week_max
    IN  IF price = None \/ min_val = None \/ max_val = None THEN FALSE
        ELSE \/ Val(price) < Val(min_val)
             \/ Val(price) * 100 > Val(max_val) * 105

\* mutant: >= in place of >
_holdings_exceed_inclusive(equity) ==
    LET insiders == equity.financials.held_insiders
        institutions == equity.financials.held_institutions
    IN  IF insiders = None \/ institutions = None THEN FALSE
        ELSE Val(insiders) + Val(institutions) >= 105

\* insiders + institutions > Decimal("1.05")
_holdings_exceed(equity) ==
    LET insiders == equity.financials.held_insiders
        institutions == equity.financials.held_institutions
    IN  IF insiders = None \/ institutions = None THEN FALSE
        ELSE Val(insiders) + Val(institutions) > 105

threshold == 5

_has_extreme_return(equity) ==
    LET roe == equity.financials.return_on_equity
        roa == equity.financials.return_on_assets
    IN  IF roe # None /\ Abs(Val(roe)) > threshold * 100 THEN TRUE
        ELSE roa # None /\ Abs(Val(roa)) > threshold * 100

\* the lambda of "Extreme dividend yield (>100%)": dividend_yield > 1
_extreme_dividend_yield(equity) ==
    /\ equity.financials.dividend_yield # None
    /\ Val(equity.financials.dividend_yield) > 100

\* predicate(eq): a predicate is held by the description of its finding
predicate_call(predicate, eq) ==
    CASE predicate = "Price recorded without market cap" ->
            has_field(eq, "last_price") /\ ~has_field(eq, "market_cap")
      [] predicate = "Market cap recorded without price" ->
            has_field(eq, "market_cap") /\ ~has_field(eq, "last_price")
      [] predicate = "Price and market cap both missing" ->
            ~has_field(eq, "last_price") /\ ~has_field(eq, "market_cap")
      [] predicate = "Partial 52-week range" ->
            has_field(eq, "fifty_two_week_min")
                # has_field(eq, "fifty_two_week_max")
      [] predicate = "Profit margin exceeds gross margin" ->
            _profit_exceeds_gross(eq)
      [] predicate = "Operating margin exceeds gross margin" ->
            _operating_exceeds_gross(eq)
      [] predicate = "Trailing P/E without EPS" ->
            has_field(eq, "trailing_pe") /\ ~has_field(eq, "trailing_eps")
      [] predicate = "Revenue/share without revenue" ->
            has_field(eq, "revenue_per_share") /\ ~has_field(eq, "revenue")
      [] predicate = "Price/book without price" ->
            has_field(eq, "price_to_book") /\ ~has_field(eq, "last_price")
      [] predicate = "52-week min exceeds max" -> _has_inverted_range(eq)
      [] predicate = "Price outside 52-week range" -> _price_outside_range(eq)
      [] predicate = "Extreme dividend yield (>100%)" ->
            _extreme_dividend_yield(eq)
      [] predicate = "Extreme trailing P/E (+-1000)" -> _has_extreme_pe(eq)
      [] predicate = "Holdings exceed 100%" -> _holdings_exceed(eq)
      [] predicate = "Extreme ROE or ROA (+-500%)" -> _has_extreme_return(eq)

\* mutant: the count stops at the first equity the predicate rejects
RECURSIVE count_matches_until_miss(_, _)
count_matches_until_miss(eqs, predicate) ==
    IF eqs = <<>> THEN 0
    ELSE IF ~predicate_call(predicate, Head(eqs)) THEN 0
    ELSE 1 + count_matches_until_miss(Tail(eqs), predicate)

\* sum(1 for eq in equities if predicate(eq))
RECURSIVE count_matches(_, _)
count_matches(eqs, predicate) ==
    IF eqs = <<>> THEN 0
    ELSE (IF predicate_call(predicate, Head(eqs)) THEN 1 ELSE 0)
         + count_matches(Tail(eqs), predicate)

_finding(description, eqs, total) ==
    [description |-> description,
     count |-> count_matches(eqs, description),
     total |-> total]

run_cross_field_checks(eqs) ==
    LET total == Len(eqs)
    IN  << _finding("Price recorded without market cap", eqs, total),
           _finding("Market cap recorded without price", eqs, total),
           _finding("Price and market cap both missing", eqs, total),
           _finding("Partial 52-week range", eqs, total) >>

run_ratio_checks(eqs) ==
    LET total == Len(eqs)
    IN  << _finding("Profit margin exceeds gross margin", eqs, total),
           _finding("Operating margin exceeds gross margin", eqs, total),
           _finding("Trailing P/E without EPS", eqs, total),
           _finding("Revenue/share without revenue", eqs, total),
           _finding("Price/book without price", eqs, total) >>

run_plausibility_checks(eqs) ==
    LET total == Len(eqs)
    IN  << _finding("52-week min exceeds max", eqs, total),
           _finding("Price outside 52-week range", eqs, total),
           _finding("Extreme dividend yield (>100%)", eqs, total),
           _finding("Extreme trailing P/E (+-1000)", eqs, total),
           _finding("Holdings exceed 100%", eqs, total),
           _finding("Extreme ROE or ROA (+-500%)", eqs, total) >>

---------------------------------------------------------------------------
(* reports/data_provider.py: completeness *)

\* sum(1 for attr, _ in fields if has_field(equity, attr))
RECURSIVE _count_equity_fields(_, _)
_count_equity_fields(equity, fields) ==
    IF fields = <<>> THEN 0
    ELSE (IF has_field(equity, Head(fields)[1]) THEN 1 ELSE 0)
         + _count_equity_fields(equity, Tail(fields))

\* mutant: the identity field list passed in place of the financial one
_compute_completeness_scores_identity(eqs) ==
    [i \in DOMAIN eqs |-> _count_equity_fields(eqs[i], identity_fields)]

_compute_completeness_scores(eqs) ==
    [i \in DOMAIN eqs |-> _count_equity_fields(eqs[i], financial_fields)]

\* sorted(data)
RECURSIVE insert_sorted(_, _)
insert_sorted(x, s) ==
    IF s = <<>> THEN <<x>>
    ELSE IF x <= Head(s) THEN <<x>> \o s
    ELSE <<Head(s)>> \o insert_sorted(x, Tail(s))

RECURSIVE sorted(_)
sorted(s) == IF s = <<>> THEN <<>> ELSE insert_sorted(Head(s), sorted(Tail(s)))

\* statistics.median: the middle value, or the mean of the two middle values
median(values) ==
    LET data == sorted(values)
        n == Len(data)
    IN  IF n % 2 = 1 THEN FracOfInt(data[(n \div 2) + 1])
        ELSE Frac(data[n \div 2] + data[(n \div 2) + 1], 2)

\* statistics.mean
mean(values) == Frac(SumSeq(values), Len(values))

load_completeness_distribution(eqs) ==
    LET scores == _compute_completeness_scores(eqs)
    IN  [count |-> Len(scores),
         median |-> IF scores # <<>> THEN median(scores) ELSE FracZero,
         mean |-> IF scores # <<>> THEN mean(scores) ELSE FracZero,
         values |-> scores]

---------------------------------------------------------------------------
(* reports/data_provider.py: market cap distribution *)

\* mutant: market_cap >= 0 in place of market_cap > 0
RECURSIVE _extract_market_caps_non_negative(_)
_extract_market_caps_non_negative(eqs) ==
    IF eqs = <<>> THEN <<>>
    ELSE LET market_cap == Head(eqs).financials.market_cap
         IN  (IF market_cap # None /\ Val(market_cap) >= 0
              THEN <<Val(market_cap)>> ELSE <<>>)
             \o _extract_market_caps_non_negative(Tail(eqs))

\* tuple(float(eq.financials.market_cap) for eq in equities
\*       if eq.financials.market_cap is not None
\*          and eq.financials.market_cap > 0)
\* float() of a Decimal with two decimal places and fewer than 16 digits
\* keeps its value to the hundredth, so the hundredths are kept as they are
RECURSIVE _extract_market_caps(_)
_extract_market_caps(eqs) ==
    IF eqs = <<>> THEN <<>>
    ELSE LET market_cap == Head(eqs).financials.market_cap
         IN  (IF market_cap # None /\ Val(market_cap) > 0
              THEN <<Val(market_cap)>> ELSE <<>>)
             \o _extract_market_caps(Tail(eqs))

load_market_cap_distribution(eqs) ==
    LET values == _extract_market_caps(eqs)
    IN  [count |-> Len(values),
         median |-> IF values # <<>> THEN median(values) ELSE FracZero,
         mean |-> IF values # <<>> THEN mean(values) ELSE FracZero,
         values |-> values]

---------------------------------------------------------------------------
(* reports/fields.py and reports/data_provider.py: sector heatmap *)

\* tuple((attr, label) for attr, label in fields if attr not in excluded)
RECURSIVE not_excluded(_, _)
not_excluded(fields, excluded) ==
    IF fields = <<>> THEN <<>>
    ELSE (IF Head(fields)[1] \notin excluded THEN <<Head(fields)>> ELSE <<>>)
         \o not_excluded(Tail(fields), excluded)

heatmap_fields ==
    not_excluded(financial_fields, {"industry", "sector", "currency"})

\* grouped.setdefault(key, []).append(eq): grouped is the dict in insertion
\* order, a sequence of [sector, equities] entries with distinct sectors
RECURSIVE setdefault_append(_, _, _)
setdefault_append(grouped, key, eq) ==
    IF grouped = <<>> THEN << [sector |-> key, equities |-> <<eq>>] >>
    ELSE IF Head(grouped).sector = key
    THEN << [sector |-> key,
             equities |-> Append(Head(grouped).equities, eq)] >>
         \o Tail(grouped)
    ELSE <<Head(grouped)>> \o setdefault_append(Tail(grouped), key, eq)

\* mutant: a record without a sector is grouped under the sector "Unknown"
RECURSIVE group_loop_keep_null(_, _)
group_loop_keep_null(grouped, eqs) ==
    IF eqs = <<>> THEN grouped
    ELSE group_loop_keep_null(
            setdefault_append(grouped,
                              IF Head(eqs).financials.sector # None
                              THEN Val(Head(eqs).financials.sector)
                              ELSE "Unknown",
                              Head(eqs)),
            Tail(eqs))

\* the loop of _group_by_sector over eqs, started with the dict grouped
RECURSIVE group_loop(_, _)
group_loop(grouped, eqs) ==
    IF eqs = <<>> THEN grouped
    ELSE group_loop(
            IF Head(eqs).financials.sector # None
            THEN setdefault_append(grouped, Val(Head(eqs).financials.sector),
                                   Head(eqs))
            ELSE grouped,
            Tail(eqs))

_group_by_sector(eqs) == group_loop(<<>>, eqs)

\* sum(1 for eq in equities if has_field(eq, attr)) / total * 100
_field_coverage_pct(eqs, attr, total) ==
    IF total = 0 THEN FracZero
    ELSE Frac(Cardinality({i \in DOMAIN eqs : has_field(eqs[i], attr)}) * 100,
              total)

_sector_coverage_row(eqs, fields) ==
    [i \in DOMAIN fields |-> _field_coverage_pct(eqs, fields[i][1], Len(eqs))]

\* the greatest common divisor of two naturals, b > 0
RECURSIVE gcd(_, _)
gcd(a, b) == IF b = 0 THEN a ELSE gcd(b, a % b)

\* a fraction in lowest terms
reduced(p) ==
    LET g == gcd(Abs(p.num), p.den) IN Frac(p.num \div g, p.den \div g)

\* the least common multiple of the denominators of a sequence of fractions
RECURSIVE common_den(_)
common_den(values) ==
    IF values = <<>> THEN 1
    ELSE LET rest == common_den(Tail(values))
         IN  (Head(values).den \div gcd(Head(values).den, rest)) * rest

\* sum(values) of a sequence of fractions
sum(values) ==
    LET den == common_den(values)
    IN  reduced(Frac(SumSeq([i \in DOMAIN values |->
                                values[i].num * (den \div values[i].den)]),
                     den))

\* sum(values) / n
divided(p, n) == reduced(Frac(p.num, p.den * n))

_mean(values) ==
    IF values = <<>> THEN FracZero ELSE divided(sum(values), Len(values))

\* sorted(items, key=...), ascending and stable; items are [key, item]
RECURSIVE insert_by_key(_, _)
insert_by_key(x, s) ==
    IF s = <<>> THEN <<x>>
    ELSE IF FracLeq(x.key, Head(s).key) THEN <<x>> \o s
    ELSE <<Head(s)>> \o insert_by_key(x, Tail(s))

RECURSIVE sorted_by_key(_)
sorted_by_key(s) ==
    IF s = <<>> THEN <<>>
    ELSE insert_by_key(Head(s), sorted_by_key(Tail(s)))

\* sorted(items, key=..., reverse=True): descending, equal keys keep their
\* original order
RECURSIVE insert_by_key_reverse(_, _)
insert_by_key_reverse(x, s) ==
    IF s = <<>> THEN <<x>>
    ELSE IF FracLeq(Head(s).key, x.key) THEN <<x>> \o s
    ELSE <<Head(s)>> \o insert_by_key_reverse(x, Tail(s))

RECURSIVE sorted_by_key_reverse(_)
sorted_by_key_reverse(s) ==
    IF s = <<>> THEN <<>>
    ELSE insert_by_key_reverse(Head(s), sorted_by_key_reverse(Tail(s)))

\* mutant: the columns ranked by the coverage of the first row only
_rank_columns_by_first_row(rows) ==
    IF rows = <<>> THEN <<>>
    ELSE LET num_cols == Len(rows[1])
             ranked == sorted_by_key_reverse(
                          [c \in 1..num_cols |->
                              [key |-> rows[1][c], item |-> c]])
         IN  [j \in DOMAIN ranked |-> ranked[j].item]

_rank_columns_by_coverage(rows) ==
    IF rows = <<>> THEN <<>>
    ELSE LET num_cols == Len(rows[1])
             col_means ==
                [c \in 1..num_cols |->
                    divided(sum([r \in DOMAIN rows |-> rows[r][c]]),
                            Len(rows))]
             ranked == sorted_by_key_reverse(
                          [c \in 1..num_cols |->
                              [key |-> col_means[c], item |-> c]])
         IN  [j \in DOMAIN ranked |-> ranked[j].item]

load_sector_field_coverage(eqs) ==
    LET grouped == _group_by_sector(eqs)
        fields == heatmap_fields
        sector_rows ==
            [g \in DOMAIN grouped |->
                [sector |-> grouped[g].sector,
                 row |-> _sector_coverage_row(grouped[g].equities, fields)]]
        ranked ==
            sorted_by_key([g \in DOMAIN sector_rows |->
                [key |-> _mean(sector_rows[g].row), item |-> sector_rows[g]]])
        col_order ==
            _rank_columns_by_coverage([g \in DOMAIN ranked |->
                                          ranked[g].item.row])
    IN  [sectors |-> [g \in DOMAIN ranked |-> ranked[g].item.sector],
         fields |-> [j \in DOMAIN col_order |-> fields[col_order[j]][2]],
         percentages |->
            [g \in DOMAIN ranked |->
                [j \in DOMAIN col_order |-> ranked[g].item.row[col_order[j]]]]]

---------------------------------------------------------------------------
(* reports/integrity_report.py: one run of the page script, step by step.  *)
(* pc names the next statement of the script; a result that is not yet     *)
(* computed in the current run is None, a computed result r is Some(r).    *)

ReportInit ==
    /\ equities = <<>>
    /\ pc = "load_coverage_report"
    /\ report = None
    /\ summary = None
    /\ identityTable = None
    /\ financialTable = None
    /\ crossField = None
    /\ ratio = None
    /\ plausibility = None
    /\ completeness = None
    /\ marketCap = None
    /\ heatmap = None

\* report = load_coverage_report()
LoadCoverageReport ==
    /\ pc = "load_coverage_report"
    /\ report' = Some(load_coverage_report(equities))
    /\ pc' = "render_summary"
    /\ UNCHANGED <<equities, summary, identityTable, financialTable,
                   crossField, ratio, plausibility, completeness, marketCap,
                   heatmap>>
    /\ UNCHANGED notReport

\* render_summary(report)
RenderSummary ==
    /\ pc = "render_summary"
    /\ summary' = Some(render_summary(Val(report)))
    /\ pc' = "render_identity_coverage"
    /\ UNCHANGED <<equities, report, identityTable, financialTable,
                   crossField, ratio, plausibility, completeness, marketCap,
                   heatmap>>
    /\ UNCHANGED notReport

\* render_coverage_table("Identity Coverage", report.identity_coverage)
RenderIdentityCoverage ==
    /\ pc = "render_identity_coverage"
    /\ identityTable' =
          Some(_build_coverage_dataframe(Val(report).identity_coverage))
    /\ pc' = "load_cross_field_consistency"
    /\ UNCHANGED <<equities, report, summary, financialTable,
                   crossField, ratio, plausibility, completeness, marketCap,
                   heatmap>>
    /\ UNCHANGED notReport

\* render_consistency_card(..., load_cross_field_consistency())
LoadCrossFieldConsistency ==
    /\ pc = "load_cross_field_consistency"
    /\ crossField' = Some(run_cross_field_checks(equities))
    /\ pc' = "load_financial_ratio_consistency"
    /\ UNCHANGED <<equities, report, summary, identityTable, financialTable,
                   ratio, plausibility, completeness, marketCap,
                   heatmap>>
    /\ UNCHANGED notReport

\* render_consistency_card(..., load_financial_ratio_consistency())
LoadFinancialRatioConsistency ==
    /\ pc = "load_financial_ratio_consistency"
    /\ ratio' = Some(run_ratio_checks(equities))
    /\ pc' = "load_value_plausibility"
    /\ UNCHANGED <<equities, report, summary, identityTable, financialTable,
                   crossField, plausibility, completeness, marketCap,
                   heatmap>>
    /\ UNCHANGED notReport

\* render_consistency_card(..., load_value_plausibility())
LoadValuePlausibility ==
    /\ pc = "load_value_plausibility"
    /\ plausibility' = Some(run_plausibility_checks(equities))
    /\ pc' = "render_financial_coverage"
    /\ UNCHANGED <<equities, report, summary, identityTable, financialTable,
                   crossField, ratio, completeness, marketCap, heatmap>>
    /\ UNCHANGED notReport

\* render_coverage_table("Financial Coverage", report.financial_coverage)
RenderFinancialCoverage ==
    /\ pc = "render_financial_coverage"
    /\ financialTable' =
          Some(_build_coverage_dataframe(Val(report).financial_coverage))
    /\ pc' = "load_market_cap_distribution"
    /\ UNCHANGED <<equities, report, summary, identityTable,
                   crossField, ratio, plausibility, completeness, marketCap,
                   heatmap>>
    /\ UNCHANGED notReport

\* render_market_cap_card(..., load_market_cap_distribution())
LoadMarketCapDistribution ==
    /\ pc = "load_market_cap_distribution"
    /\ marketCap' = Some(load_market_cap_distribution(equities))
    /\ pc' = "load_completeness_distribution"
    /\ UNCHANGED <<equities, report, summary, identityTable, financialTable,
                   crossField, ratio, plausibility, completeness, heatmap>>
    /\ UNCHANGED notReport

\* render_completeness_card(..., load_completeness_distribution())
LoadCompletenessDistribution ==
    /\ pc = "load_completeness_distribution"
    /\ completeness' = Some(load_completeness_distribution(equities))
    /\ pc' = "load_sector_field_coverage"
    /\ UNCHANGED <<equities, report, summary, identityTable, financialTable,
                   crossField, ratio, plausibility, marketCap, heatmap>>
    /\ UNCHANGED notReport

\* render_sector_heatmap_card(..., load_sector_field_coverage())
LoadSectorFieldCoverage ==
    /\ pc = "load_sector_field_coverage"
    /\ heatmap' = Some(load_sector_field_coverage(equities))
    /\ pc' = "done"
    /\ UNCHANGED <<equities, report, summary, identityTable, financialTable,
                   crossField, ratio, plausibility, completeness, marketCap>>
    /\ UNCHANGED notReport

\* The page is viewed again: the script runs from the top and every element
\* is rebuilt.  _load_equities() returns the list of the previous run, or,
\* the upstream source having changed, a list with one equity more or less.
StartRun ==
    /\ pc = "done"
    /\ \E eqs \in {equities}
                  \cup {Append(equities, e) : e \in
                          IF Len(equities) < MaxEquities THEN EquityPool ELSE {}}
                  \cup (IF equities # <<>> THEN {Tail(equities)} ELSE {}) :
          equities' = eqs
    /\ pc' = "load_coverage_report"
    /\ report' = None
    /\ summary' = None
    /\ identityTable' = None
    /\ financialTable' = None
    /\ crossField' = None
    /\ ratio' = None
    /\ plausibility' = None
    /\ completeness' = None
    /\ marketCap' = None
    /\ heatmap' = None
    /\ UNCHANGED notReport

ReportNext ==
    \/ LoadCoverageReport
    \/ RenderSummary
    \/ RenderIdentityCoverage
    \/ LoadCrossFieldConsistency
    \/ LoadFinancialRatioConsistency
    \/ LoadValuePlausibility
    \/ RenderFinancialCoverage
    \/ LoadMarketCapDistribution
    \/ LoadCompletenessDistribution
    \/ LoadSectorFieldCoverage
    \/ StartRun

---------------------------------------------------------------------------
(* _overall_coverage as a function of any tuple of FieldCoverage           *)

\* the FieldCoverage values with 0 <= count <= total <= MaxTotal
FieldCoverages ==
    {fc \in [label : {"f"}, count : 0..MaxTotal, total : 0..MaxTotal] :
        fc.count <= fc.total}

OverallInit ==
    /\ coverageArg = <<>>
    /\ overallResult = None

\* the caller builds the tuple it will pass, one field at a time
AddFieldCoverage ==
    /\ overallResult = None
    /\ Len(coverageArg) < MaxFields
    /\ \E fc \in FieldCoverages : coverageArg' = Append(coverageArg, fc)
    /\ overallResult' = None
    /\ UNCHANGED notOverall

\* _overall_coverage(coverage)
CallOverallCoverage ==
    /\ overallResult = None
    /\ overallResult' = Some(_overall_coverage(coverageArg))
    /\ UNCHANGED <<coverageArg, notOverall>>

\* the caller starts over with an empty tuple
ResetCoverage ==
    /\ overallResult # None
    /\ coverageArg' = <<>>
    /\ overallResult' = None
    /\ UNCHANGED notOverall

OverallNext ==
    \/ AddFieldCoverage
    \/ CallOverallCoverage
    \/ ResetCoverage

---------------------------------------------------------------------------
(* analyses/equity_analysis/tradingview.py                                 *)
(*                                                                         *)
(* A MICs string is a sequence of tokens: a MIC code, "," or " ".          *)

_mic_to_tv_market_map ==
    [XNYS |-> "america", XNAS |-> "america", XASE |-> "america",
     ARCX |-> "america", BATS |-> "america", IEXG |-> "america",
     XLON |-> "uk", XETR |-> "germany", XFRA |-> "germany",
     XPAR |-> "france", XAMS |-> "netherlands", XBRU |-> "belgium",
     XLIS |-> "portugal", XMIL |-> "italy", XMAD |-> "spain",
     XSWX |-> "switzerland", XSTO |-> "sweden", XCSE |-> "denmark",
     XOSL |-> "norway", XHEL |-> "finland", XWBO |-> "austria",
     XTKS |-> "japan", XHKG |-> "hongkong", XSHG |-> "china",
     XSHE |-> "china", XKRX |-> "korea", XTAI |-> "taiwan",
     XASX |-> "australia", XNZE |-> "newzealand", XSES |-> "singapore",
     XBOM |-> "india", XNSE |-> "india", XTSE |-> "canada",
     BVMF |-> "brazil", XMEX |-> "mexico", XJSE |-> "rsa"]

\* str.split(","): the pieces between commas, at least one
RECURSIVE split(_, _)
split(str, piece) ==
    IF str = <<>> THEN <<piece>>
    ELSE IF Head(str) = "," THEN <<piece>> \o split(Tail(str), <<>>)
    ELSE split(Tail(str), Append(piece, Head(str)))

\* str.strip()
RECURSIVE lstrip(_)
lstrip(str) ==
    IF str # <<>> /\ Head(str) = " " THEN lstrip(Tail(str)) ELSE str

RECURSIVE rstrip(_)
rstrip(str) ==
    IF str # <<>> /\ str[Len(str)] = " "
    THEN rstrip(SubSeq(str, 1, Len(str) - 1)) ELSE str

\* mutant: only trailing whitespace is removed
strip_trailing(str) == rstrip(str)

strip(str) == rstrip(lstrip(str))

\* mic_map.get(mic): a piece is a key only when it is one MIC code
mic_map_get(mic) ==
    IF Len(mic) = 1 /\ mic[1] \in DOMAIN _mic_to_tv_market_map
    THEN Some(_mic_to_tv_market_map[mic[1]]) ELSE None

\* list(dict.fromkeys(m for m in markets if m))
RECURSIVE fromkeys(_, _)
fromkeys(markets, seen) ==
    IF markets = <<>> THEN seen
    ELSE LET m == Head(markets)
         IN  IF m = None \/ Val(m) \in Range(seen)
             THEN fromkeys(Tail(markets), seen)
             ELSE fromkeys(Tail(markets), Append(seen, Val(m)))

_mics_to_tv_markets(mics) ==
    IF mics = None \/ Val(mics) = <<>> THEN <<>>
    ELSE LET pieces == split(Val(mics), <<>>)
             markets == [i \in DOMAIN pieces |-> mic_map_get(strip(pieces[i]))]
         IN  fromkeys(markets, <<>>)

\* mutant: the fuzzy ticker search tried before the name search
searches_ticker_first(symbol, equity_name) ==
    << <<"name", symbol, "equal">>,
       <<"name", symbol, "match">>,
       <<"description", equity_name, "match">> >>

\* mutant: the exact search repeated after the three tiers
searches_retry_exact(symbol, equity_name) ==
    << <<"name", symbol, "equal">>,
       <<"description", equity_name, "match">>,
       <<"name", symbol, "match">>,
       <<"name", symbol, "equal">> >>

\* the three searches of resolve_tv_symbol: (field, query, operation)
searches(symbol, equity_name) ==
    << <<"name", symbol, "equal">>,
       <<"description", equity_name, "match">>,
       <<"name", symbol, "match">> >>

\* the body _build_scan_request gives httpx.post (the fixed parts left out)
_build_scan_request(field, query, operation, markets) ==
    [kind |-> "scan", markets |-> markets,
     left |-> field, operation |-> operation, right |-> query]

\* the body of fetch_logo's request
logo_request(tv_sym) ==
    [kind |-> "logo", markets |-> <<>>,
     left |-> "logoid", operation |-> "tickers", right |-> tv_sym]

(* What the scanner can answer to one request.  outcome:                   *)
(*   connect_error, timeout   httpx.post raises                            *)
(*   http_error               a non-success status: raise_for_status raises*)
(*   not_json                 the body is no JSON: resp.json() raises      *)
(*   not_object               the JSON body is no object: .get raises      *)
(*   data_missing             an object without "data"                     *)
(*   data_empty               "data" is []                                 *)
(*   row_not_object           data[0] is no object: rows[0].get raises     *)
(*   row                      data[0] is an object; value is its "s" field *)
(*                            (scan) or the first item of "d" (logo), None *)
(*                            when the field is missing                    *)
(*   d_empty                  data[0]["d"] is []: indexing raises          *)
Failures ==
    {"connect_error", "timeout", "http_error", "not_json", "not_object",
     "row_not_object", "d_empty"}

ScanResponses ==
    {[outcome |-> o, value |-> None] :
        o \in {"connect_error", "timeout", "http_error", "not_json",
               "not_object", "data_missing", "data_empty",
               "row_not_object", "row"}}
    \cup {[outcome |-> "row", value |-> Some(sym)] :
            sym \in {"NYSE:ACM", "LSE:ACM"}}

LogoResponses ==
    {[outcome |-> o, value |-> None] :
        o \in {"connect_error", "timeout", "http_error", "not_json",
               "not_object", "data_missing", "data_empty",
               "row_not_object", "row", "d_empty"}}
    \cup {[outcome |-> "row", value |-> Some("acme-logo")]}

\* the exception the try block raises on this answer, "none" when it
\* completes
raises(resp) ==
    CASE resp.outcome = "connect_error" -> "ConnectError"
      [] resp.outcome = "timeout" -> "TimeoutException"
      [] resp.outcome = "http_error" -> "HTTPStatusError"
      [] resp.outcome = "not_json" -> "JSONDecodeError"
      [] resp.outcome = "not_object" -> "AttributeError"
      [] resp.outcome = "row_not_object" -> "AttributeError"
      [] resp.outcome = "d_empty" -> "IndexError"
      [] OTHER -> "none"

\* mutant: except httpx.HTTPError
caught_http_only(exc) ==
    exc \in {"ConnectError", "TimeoutException", "HTTPStatusError"}

\* mutant: no except clause, the exception leaves the function
caught_nothing(exc) == FALSE

\* except Exception: pass
caught(exc) == TRUE

\* _try_scan, given the scanner's answer to its request: the value returned
\* and the exception that leaves the function ("none" when it returns)
_try_scan(resp) ==
    LET exc == raises(resp)
        rows == IF resp.outcome = "row" THEN <<resp.value>> ELSE <<>>
    IN  IF exc # "none"
        THEN [exception |-> IF caught(exc) THEN "none" ELSE exc,
              result |-> None]
        ELSE IF rows # <<>>
        THEN [exception |-> "none", result |-> rows[1]]
        ELSE [exception |-> "none", result |-> None]

\* fetch_logo, given the scanner's answer to its request
fetch_logo(resp) ==
    LET exc == raises(resp)
        rows == IF resp.outcome = "row" THEN <<resp.value>> ELSE <<>>
    IN  IF exc # "none"
        THEN [exception |-> IF caught(exc) THEN "none" ELSE exc,
              result |-> None]
        ELSE IF rows # <<>>
        THEN [exception |-> "none", result |-> rows[1]]
        ELSE [exception |-> "none", result |-> None]

\* mutant: an empty string returned when nothing was found
resolve_fallback_empty(symbol) == ""

\* the return after the loop of resolve_tv_symbol
resolve_fallback(symbol) == symbol

---------------------------------------------------------------------------
(* analyses/equity_analysis/equity_analysis.py: one run of the page script *)
(* from the call of resolve_tv_symbol on.  tvSymbol and tvLogo are None    *)
(* until the call returns; fetch_logo returning None gives Some(None).     *)

Symbols == {"ACM", ""}
Names == {"ACME", ""}
MicStrings ==
    {None, Some(<<"XNYS", ",", " ", "XLON", ",", "XNAS", ",", "ZZZZ">>)}

\* dict.get(key, default)
dict_get(d, key, default) == IF key \in DOMAIN d THEN d[key] ELSE default

\* st.session_state.get(key): the stored value, None when the key is absent
session_state_get(ss, key) == IF key \in DOMAIN ss THEN Some(ss[key]) ELSE None

\* row.to_dict() of a row of the universe grid: the columns the analysis and
\* trends pages read
Row(name, symbol, mics, figi) ==
    ("Name" :> name) @@ ("Symbol" :> symbol) @@ ("MICs" :> mics)
        @@ ("Share Class FIGI" :> figi)

\* the rows of the universe grid; an equity without MICs has no FIGI either
GridRows ==
    {Row(n, s, m, IF m = None THEN "" ELSE "BBG1") :
        n \in Names, s \in Symbols, m \in MicStrings}

analysis_info ==
    "Select an equity from the Universe table to view its analysis."
trends_info ==
    "Select an equity from the Universe table to view equity trends."

\* mutant: the guard stops the page only when both values are missing
selection_missing_both(data, name) ==
    /\ (IF data = None THEN TRUE ELSE DOMAIN Val(data) = {})
    /\ (IF name = None THEN TRUE ELSE Val(name) = "")

\* not data or not name
selection_missing(data, name) ==
    IF (IF data = None THEN TRUE ELSE DOMAIN Val(data) = {}) THEN TRUE
    ELSE (IF name = None THEN TRUE ELSE Val(name) = "")

\* no page script is in the middle of a run
PagesAtRest ==
    /\ tvPc \in {"idle", "done", "failed", "stopped"}
    /\ trendsPc \in {"idle", "done", "failed", "stopped"}

TVInit ==
    /\ session = <<>>
    /\ elements = <<>>
    /\ tvPc = "idle"
    /\ tvArgs = [symbol |-> "", equity_name |-> "", mics |-> None]
    /\ tier = 1
    /\ requests = <<>>
    /\ responses = <<>>
    /\ tvSymbol = None
    /\ tvLogo = None
    /\ raised = FALSE

\* mutant: the row itself is not stored
selected_row_state_name_only(row) == "selected_equity_name" :> row["Name"]

\* st.session_state["selected_equity_name"] = row["Name"]
\* st.session_state["selected_equity_data"] = row.to_dict()
selected_row_state(row) ==
    ("selected_equity_name" :> row["Name"]) @@ ("selected_equity_data" :> row)

\* display_grid: a row is selected in the universe grid; the row is stored in
\* session state and the page on display is left (st.switch_page)
SelectRow ==
    /\ PagesAtRest
    /\ \E row \in GridRows : session' = selected_row_state(row)
    /\ elements' = <<>>
    /\ tvPc' = "idle"
    /\ tvArgs' = [symbol |-> "", equity_name |-> "", mics |-> None]
    /\ tier' = 1
    /\ requests' = <<>>
    /\ responses' = <<>>
    /\ tvSymbol' = None
    /\ tvLogo' = None
    /\ raised' = FALSE
    /\ trendsPc' = "idle"
    /\ upstream' = None
    /\ history' = None
    /\ trendsRaised' = FALSE
    /\ UNCHANGED <<notPages>>

\* equity_analysis.py is run and the session state guard stops it:
\* st.info(...); st.stop()
StopAnalysis ==
    /\ PagesAtRest
    /\ selection_missing(session_state_get(session, "selected_equity_data"),
                         session_state_get(session, "selected_equity_name"))
    /\ elements' = << [kind |-> "info", text |-> analysis_info] >>
    /\ tvPc' = "stopped"
    /\ tvArgs' = [symbol |-> "", equity_name |-> "", mics |-> None]
    /\ tier' = 1
    /\ requests' = <<>>
    /\ responses' = <<>>
    /\ tvSymbol' = None
    /\ tvLogo' = None
    /\ raised' = FALSE
    /\ trendsPc' = "idle"
    /\ upstream' = None
    /\ history' = None
    /\ trendsRaised' = FALSE
    /\ UNCHANGED <<notPages, session>>

\* equity_analysis.py is run, the guard lets it pass and the page calls
\* resolve_tv_symbol(data.get("Symbol", ""), name, data.get("MICs"))
CallResolve ==
    /\ PagesAtRest
    /\ LET data == session_state_get(session, "selected_equity_data")
           name == session_state_get(session, "selected_equity_name")
       IN  /\ ~selection_missing(data, name)
           /\ tvArgs' = [symbol |-> dict_get(Val(data), "Symbol", ""),
                         equity_name |-> Val(name),
                         mics |-> dict_get(Val(data), "MICs", None)]
    /\ elements' = <<>>
    /\ tier' = 1
    /\ requests' = <<>>
    /\ responses' = <<>>
    /\ tvSymbol' = None
    /\ tvLogo' = None
    /\ raised' = FALSE
    /\ tvPc' = "resolve_tv_symbol"
    /\ trendsPc' = "idle"
    /\ upstream' = None
    /\ history' = None
    /\ trendsRaised' = FALSE
    /\ UNCHANGED <<notPages, session>>

\* one pass of the loop with an empty query: continue
SkipSearch ==
    /\ tvPc = "resolve_tv_symbol"
    /\ tier <= Len(searches(tvArgs.symbol, tvArgs.equity_name))
    /\ searches(tvArgs.symbol, tvArgs.equity_name)[tier][2] = ""
    /\ tier' = tier + 1
    /\ UNCHANGED <<tvPc, tvArgs, requests, responses, tvSymbol, tvLogo, raised>>
    /\ UNCHANGED <<notPages, pageVars, trendsVars>>

\* one pass of the loop with a query: _try_scan sends one request and the
\* loop returns its result or goes on
ScanSearch ==
    /\ tvPc = "resolve_tv_symbol"
    /\ tier <= Len(searches(tvArgs.symbol, tvArgs.equity_name))
    /\ searches(tvArgs.symbol, tvArgs.equity_name)[tier][2] # ""
    /\ \E resp \in ScanResponses :
          LET search == searches(tvArgs.symbol, tvArgs.equity_name)[tier]
              markets == _mics_to_tv_markets(tvArgs.mics)
              body == _build_scan_request(search[1], search[2], search[3],
                                          markets)
              answer == _try_scan(resp)
          IN  /\ requests' = Append(requests, body)
              /\ responses' = Append(responses, resp)
              /\ IF answer.exception # "none"
                 THEN /\ raised' = TRUE
                      /\ tvPc' = "failed"
                      /\ UNCHANGED <<tier, tvSymbol>>
                 ELSE IF answer.result # None
                 THEN /\ tvSymbol' = Some(Val(answer.result))
                      /\ tvPc' = "fetch_logo"
                      /\ UNCHANGED <<tier, raised>>
                 ELSE /\ tier' = tier + 1
                      /\ UNCHANGED <<tvPc, tvSymbol, raised>>
    /\ UNCHANGED <<tvArgs, tvLogo>>
    /\ UNCHANGED <<notPages, pageVars, trendsVars>>

\* the loop is exhausted: return symbol
ReturnSymbol ==
    /\ tvPc = "resolve_tv_symbol"
    /\ tier > Len(searches(tvArgs.symbol, tvArgs.equity_name))
    /\ tvSymbol' = Some(resolve_fallback(tvArgs.symbol))
    /\ tvPc' = "fetch_logo"
    /\ UNCHANGED <<tvArgs, tier, requests, responses, tvLogo, raised>>
    /\ UNCHANGED <<notPages, pageVars, trendsVars>>

\* tv_logoid = fetch_logo(tv_symbol)
FetchLogo ==
    /\ tvPc = "fetch_logo"
    /\ \E resp \in LogoResponses :
          LET answer == fetch_logo(resp)
          IN  /\ requests' = Append(requests, logo_request(Val(tvSymbol)))
              /\ responses' = Append(responses, resp)
              /\ IF answer.exception # "none"
                 THEN /\ raised' = TRUE
                      /\ tvPc' = "failed"
                      /\ UNCHANGED tvLogo
                 ELSE /\ tvLogo' = Some(answer.result)
                      /\ tvPc' = "render"
                      /\ UNCHANGED raised
    /\ UNCHANGED <<tvArgs, tier, tvSymbol>>
    /\ UNCHANGED <<notPages, pageVars, trendsVars>>

\* render_header ... render_detail_tabs
RenderAnalysis ==
    /\ tvPc = "render"
    /\ tvPc' = "done"
    /\ elements' = Append(elements, [kind |-> "analysis",
                                     text |-> tvArgs.equity_name])
    /\ UNCHANGED <<tvArgs, tier, requests, responses, tvSymbol, tvLogo, raised>>
    /\ UNCHANGED <<notPages, session, trendsVars>>

TVNext ==
    \/ SelectRow
    \/ StopAnalysis
    \/ CallResolve
    \/ SkipSearch
    \/ ScanSearch
    \/ ReturnSymbol
    \/ FetchLogo
    \/ RenderAnalysis

---------------------------------------------------------------------------
(* analyses/equity_trends/data_provider.py *)

\* the (column, path) pairs of _snapshot_to_row; a path is held as the list
\* dot_path.split(".") gives
snapshot_fields ==
    << <<"snapshot_date", <<"snapshot_date">> >>,
       <<"last_price", <<"financials", "last_price">> >>,
       <<"trailing_pe", <<"financials", "trailing_pe">> >>,
       <<"price_to_book", <<"financials", "price_to_book">> >>,
       <<"trailing_eps", <<"financials", "trailing_eps">> >>,
       <<"revenue_per_share", <<"financials", "revenue_per_share">> >>,
       <<"profit_margin", <<"financials", "profit_margin">> >>,
       <<"gross_margin", <<"financials", "gross_margin">> >>,
       <<"operating_margin", <<"financials", "operating_margin">> >>,
       <<"operating_cash_flow", <<"financials", "operating_cash_flow">> >>,
       <<"free_cash_flow", <<"financials", "free_cash_flow">> >>,
       <<"total_debt", <<"financials", "total_debt">> >>,
       <<"shares_outstanding", <<"financials", "shares_outstanding">> >>,
       <<"held_insiders", <<"financials", "held_insiders">> >>,
       <<"held_institutions", <<"financials", "held_institutions">> >>,
       <<"revenue", <<"financials", "revenue">> >>,
       <<"ebitda", <<"financials", "ebitda">> >> >>

\* the getattr chain over the attributes of the path; None as soon as an
\* attribute is missing or None
RECURSIVE _resolve(_, _)
_resolve(obj, path) ==
    IF Head(path) \notin DOMAIN obj THEN None
    ELSE IF Len(path) = 1 THEN obj[Head(path)]
    ELSE _resolve(obj[Head(path)], Tail(path))

\* one row of the frame; float() of a Decimal keeps the value at the scale
\* of the model (hundredths)
_snapshot_to_row(snapshot) ==
    [col \in {snapshot_fields[i][1] : i \in DOMAIN snapshot_fields} |->
        _resolve(snapshot,
                 (CHOOSE f \in Range(snapshot_fields) : f[1] = col)[2])]

\* pd.DataFrame(rows): the columns are the keys of the rows, and there are
\* none when there are no rows; pd.DataFrame() is DataFrame(<<>>)
DataFrame(rows) ==
    [columns |-> IF rows = <<>> THEN {} ELSE DOMAIN rows[1],
     rows |-> rows]

\* df.empty
empty(df) == df.rows = <<>> \/ df.columns = {}

\* what retrieve_canonical_equity_history(figi) does: it raises the named
\* exception or returns its snapshots
HistoryAnswers ==
    {[outcome |-> "LookupError", snapshots |-> <<>>],
     [outcome |-> "KeyError", snapshots |-> <<>>],
     [outcome |-> "OSError", snapshots |-> <<>>],
     [outcome |-> "returns", snapshots |-> <<>>],
     [outcome |-> "returns", snapshots |-> <<AllFlagged>>],
     [outcome |-> "returns", snapshots |-> <<NoMin, AtThresholds>>]}

\* mutant: only KeyError is caught
is_LookupError_key_only(exc) == exc = "KeyError"

\* isinstance(exc, LookupError): the class and its subclasses
is_LookupError(exc) == exc \in {"LookupError", "KeyError", "IndexError"}

\* load_history(figi) on a call that reaches the upstream source;
\* [exception, result] as for _try_scan.  The dates of the snapshot_date
\* column stay day numbers under pd.to_datetime(...).dt.date.
load_history(answer) ==
    IF answer.outcome # "returns"
    THEN (IF is_LookupError(answer.outcome)
          THEN [exception |-> "none", result |-> Some(DataFrame(<<>>))]
          ELSE [exception |-> answer.outcome, result |-> None])
    ELSE [exception |-> "none",
          result |-> Some(DataFrame([i \in DOMAIN answer.snapshots |->
                                       _snapshot_to_row(answer.snapshots[i])]))]

---------------------------------------------------------------------------
(* analyses/equity_trends/equity_trends.py and renderers.py: one run of    *)
(* the trends page script.                                                 *)

TrendsInit ==
    /\ trendsPc = "idle"
    /\ upstream = None
    /\ history = None
    /\ trendsRaised = FALSE

\* the script is run and the session state guard stops it
StopTrends ==
    /\ PagesAtRest
    /\ selection_missing(session_state_get(session, "selected_equity_data"),
                         session_state_get(session, "selected_equity_name"))
    /\ elements' = << [kind |-> "info", text |-> trends_info] >>
    /\ trendsPc' = "stopped"
    /\ upstream' = None
    /\ history' = None
    /\ trendsRaised' = FALSE
    /\ tvPc' = "idle"
    /\ tvArgs' = [symbol |-> "", equity_name |-> "", mics |-> None]
    /\ tier' = 1
    /\ requests' = <<>>
    /\ responses' = <<>>
    /\ tvSymbol' = None
    /\ tvLogo' = None
    /\ raised' = FALSE
    /\ UNCHANGED <<notPages, session>>

\* the guard lets the script pass; figi = data.get("Share Class FIGI", "") is
\* empty: st.warning(...); st.stop().  Otherwise the script goes on to
\* load_history(figi).
CheckFigi ==
    /\ PagesAtRest
    /\ LET data == session_state_get(session, "selected_equity_data")
           name == session_state_get(session, "selected_equity_name")
       IN  /\ ~selection_missing(data, name)
           /\ IF dict_get(Val(data), "Share Class FIGI", "") = ""
              THEN /\ elements' =
                         << [kind |-> "warning",
                             text |-> "No FIGI available for this equity."] >>
                   /\ trendsPc' = "stopped"
              ELSE /\ elements' = <<>>
                   /\ trendsPc' = "load_history"
    /\ upstream' = None
    /\ history' = None
    /\ trendsRaised' = FALSE
    /\ tvPc' = "idle"
    /\ tvArgs' = [symbol |-> "", equity_name |-> "", mics |-> None]
    /\ tier' = 1
    /\ requests' = <<>>
    /\ responses' = <<>>
    /\ tvSymbol' = None
    /\ tvLogo' = None
    /\ raised' = FALSE
    /\ UNCHANGED <<notPages, session>>

\* df = load_history(figi)
LoadHistory ==
    /\ trendsPc = "load_history"
    /\ \E answer \in HistoryAnswers :
          LET call == load_history(answer)
          IN  /\ upstream' = Some(answer)
              /\ IF call.exception # "none"
                 THEN /\ trendsRaised' = TRUE
                      /\ trendsPc' = "failed"
                      /\ UNCHANGED history
                 ELSE /\ history' = call.result
                      /\ trendsPc' = "render_header"
                      /\ UNCHANGED trendsRaised
    /\ UNCHANGED <<notPages, tvVars, pageVars>>

\* render_header(name, df): the header, and the caption of the date range
\* when the frame has rows with a snapshot date (the caption's numbers are
\* not held)
RenderTrendsHeader ==
    /\ trendsPc = "render_header"
    /\ LET df == Val(history)
           dated == {i \in DOMAIN df.rows : df.rows[i]["snapshot_date"] # None}
       IN  elements' =
              elements
              \o << [kind |-> "header",
                     text |-> session["selected_equity_name"]] >>
              \o (IF empty(df) \/ "snapshot_date" \notin df.columns
                     \/ dated = {}
                  THEN <<>>
                  ELSE << [kind |-> "caption", text |-> "snapshot(s)"] >>)
    /\ trendsPc' = "check_empty"
    /\ UNCHANGED <<upstream, history, trendsRaised, session>>
    /\ UNCHANGED <<notPages, tvVars>>

\* if df.empty: st.info("No snapshot data available."); st.stop()
EmptyHistory ==
    /\ trendsPc = "check_empty"
    /\ empty(Val(history))
    /\ elements' = Append(elements, [kind |-> "info",
                                     text |-> "No snapshot data available."])
    /\ trendsPc' = "stopped"
    /\ UNCHANGED <<upstream, history, trendsRaised, session>>
    /\ UNCHANGED <<notPages, tvVars>>

\* render_trends(df)
RenderTrends ==
    /\ trendsPc = "check_empty"
    /\ ~empty(Val(history))
    /\ elements' = Append(elements, [kind |-> "trends",
                                     text |-> session["selected_equity_name"]])
    /\ trendsPc' = "done"
    /\ UNCHANGED <<upstream, history, trendsRaised, session>>
    /\ UNCHANGED <<notPages, tvVars>>

TrendsNext ==
    \/ StopTrends
    \/ CheckFigi
    \/ LoadHistory
    \/ RenderTrendsHeader
    \/ EmptyHistory
    \/ RenderTrends

---------------------------------------------------------------------------
(* analyses/equity_analysis/formatters.py                                  *)
(*                                                                         *)
(* A Python value passed to a formatter is a record with its type:         *)
(*   [type |-> "NoneType"]                                                 *)
(*   [type |-> "float", m, e, nan]  the number m * 10^e, or NaN            *)
(*   [type |-> "str", chars]        a string, held as its characters       *)
(*   [type |-> "list", chars]       a list, with the characters of its str *)
(* A formatted text is a string.  A call returns [exception, result].      *)

NoneValue == [type |-> "NoneType"]
Number(m, e) == [type |-> "float", m |-> m, e |-> e, nan |-> FALSE]
NaN == [type |-> "float", m |-> 0, e |-> 0, nan |-> TRUE]
Str(chars) == [type |-> "str", chars |-> chars]
List(chars) == [type |-> "list", chars |-> chars]

returns(text) == [exception |-> "none", result |-> text]
raise(exc) == [exception |-> exc, result |-> ""]

RECURSIVE pow10(_)
pow10(k) == IF k = 0 THEN 1 ELSE 10 * pow10(k - 1)

\* abs(x) >= 10^k, for a mantissa below 10^9
abs_reaches(x, k) ==
    IF x.e >= k THEN Abs(x.m) >= 1
    ELSE IF k - x.e > 9 THEN FALSE
    ELSE Abs(x.m) >= pow10(k - x.e)

\* x / 10^k and x * 10^k
divide(x, k) == [x EXCEPT !.e = @ - k]
times(x, k) == [x EXCEPT !.e = @ + k]

\* abs(x) rounded to d decimals, in units of 10^-d, for x.e < 0.  A tie is
\* rounded half to even, as the format does for a value binary floating
\* point holds exactly.
rounded(x, d) ==
    LET a == Abs(x.m)
        s == x.e + d
    IN  IF s >= 0 THEN a * pow10(s)
        ELSE LET p == pow10(-s)
                 q == a \div p
                 r == a % p
             IN  IF 2 * r > p THEN q + 1
                 ELSE IF 2 * r < p THEN q
                 ELSE IF q % 2 = 0 THEN q ELSE q + 1

\* "".join(chars)
RECURSIVE join(_)
join(chars) == IF chars = <<>> THEN "" ELSE Head(chars) \o join(Tail(chars))

\* the decimal digits of n >= 0, as characters
RECURSIVE digits(_)
digits(n) ==
    IF n < 10 THEN <<ToString(n)>>
    ELSE Append(digits(n \div 10), ToString(n % 10))

\* k zeros
zeros(k) == [i \in 1..k |-> "0"]

\* n written with d digits, zero padded
RECURSIVE zero_padded(_, _)
zero_padded(n, d) ==
    IF d = 0 THEN "" ELSE zero_padded(n \div 10, d - 1) \o ToString(n % 10)

\* the digits with a comma between groups of three
RECURSIVE grouped_digits(_)
grouped_digits(chars) ==
    IF Len(chars) <= 3 THEN join(chars)
    ELSE grouped_digits(SubSeq(chars, 1, Len(chars) - 3)) \o ","
         \o join(SubSeq(chars, Len(chars) - 2, Len(chars)))

\* format(x, ",.df") when comma, else format(x, ".df")
format_f(x, d, comma) ==
    IF x.nan THEN "nan"
    ELSE LET whole == IF x.m = 0 THEN <<"0">>
                      ELSE IF x.e >= 0 THEN digits(Abs(x.m)) \o zeros(x.e)
                      ELSE digits(rounded(x, d) \div pow10(d))
             fraction == IF x.e >= 0 THEN 0 ELSE rounded(x, d) % pow10(d)
         IN  (IF x.m < 0 THEN "-" ELSE "")
             \o (IF comma THEN grouped_digits(whole) ELSE join(whole))
             \o (IF d = 0 THEN "" ELSE "." \o zero_padded(fraction, d))

\* str(value) of a string or a list
str(value) == join(value.chars)

DigitChars == <<"0", "1", "2", "3", "4", "5", "6", "7", "8", "9">>

\* the digit a character stands for
digit_of(c) == (CHOOSE i \in DOMAIN DigitChars : DigitChars[i] = c) - 1

\* the digits of chars read into the number so far; a second point or any
\* other character is a ValueError, as is a text without a digit
RECURSIVE parse_digits(_, _, _, _)
parse_digits(chars, so_far, after_point, seen_digit) ==
    IF chars = <<>>
    THEN (IF seen_digit THEN [exception |-> "none", result |-> so_far]
          ELSE raise("ValueError"))
    ELSE IF Head(chars) = "."
    THEN (IF after_point THEN raise("ValueError")
          ELSE parse_digits(Tail(chars), so_far, TRUE, seen_digit))
    ELSE IF Head(chars) \in Range(DigitChars)
    THEN parse_digits(Tail(chars),
                      Number(so_far.m * 10 + digit_of(Head(chars)),
                             IF after_point THEN so_far.e - 1 ELSE so_far.e),
                      after_point, TRUE)
    ELSE raise("ValueError")

\* float(value): a float is itself, a string is parsed (an optional sign,
\* digits, an optional point), anything else is a TypeError
float(value) ==
    IF value.type = "float" THEN [exception |-> "none", result |-> value]
    ELSE IF value.type = "str"
    THEN (IF value.chars # <<>> /\ Head(value.chars) = "-"
          THEN LET parsed == parse_digits(Tail(value.chars), Number(0, 0),
                                          FALSE, FALSE)
               IN  IF parsed.exception # "none" THEN parsed
                   ELSE [exception |-> "none",
                         result |-> Number(-parsed.result.m, parsed.result.e)]
          ELSE parse_digits(value.chars, Number(0, 0), FALSE, FALSE))
    ELSE raise("TypeError")

\* for divisor, suffix, fmt in tiers: if abs(value) >= divisor: return ...
\* a tier is <<k, suffix, d>> for the divisor 10^k and the format .df; the
\* text of the first tier the value reaches, "" when it reaches none
RECURSIVE first_tier(_, _)
first_tier(value, tiers) ==
    IF tiers = <<>> THEN ""
    ELSE IF abs_reaches(value, Head(tiers)[1])
    THEN format_f(divide(value, Head(tiers)[1]), Head(tiers)[3], FALSE)
         \o Head(tiers)[2]
    ELSE first_tier(value, Tail(tiers))

\* mutant: the thresholds are tried from the smallest
fmt_currency_smallest_first(value) ==
    IF value.type = "NoneType" THEN returns("N/A")
    ELSE IF value.type # "float" THEN raise("TypeError")
    ELSE LET tiers == << <<6, "M", 2>>, <<9, "B", 2>>, <<12, "T", 2>> >>
         IN  IF ~value.nan /\ first_tier(value, tiers) # ""
             THEN returns("$" \o first_tier(value, tiers))
             ELSE returns("$" \o format_f(value, 2, TRUE))

\* abs() of a string or a list raises TypeError
fmt_currency(value) ==
    IF value.type = "NoneType" THEN returns("N/A")
    ELSE IF value.type # "float" THEN raise("TypeError")
    ELSE LET tiers == << <<12, "T", 2>>, <<9, "B", 2>>, <<6, "M", 2>> >>
         IN  IF ~value.nan /\ first_tier(value, tiers) # ""
             THEN returns("$" \o first_tier(value, tiers))
             ELSE returns("$" \o format_f(value, 2, TRUE))

\* value * 100 repeats a string or a list; the format .2f of a string is a
\* ValueError and of a list a TypeError
fmt_pct(value) ==
    IF value.type = "NoneType" THEN returns("N/A")
    ELSE IF value.type = "str" THEN raise("ValueError")
    ELSE IF value.type # "float" THEN raise("TypeError")
    ELSE returns(format_f(times(value, 2), 2, FALSE) \o "%")

\* mutant: except ValueError alone
coercion_failed_value_error(exc) == exc = "ValueError"

\* except (ValueError, TypeError)
coercion_failed(exc) == exc \in {"ValueError", "TypeError"}

fmt_number(value, decimals) ==
    IF value.type = "NoneType" THEN returns("N/A")
    ELSE LET coerced == float(value)
         IN  IF coerced.exception = "none"
             THEN returns(format_f(coerced.result, decimals, TRUE))
             ELSE IF coercion_failed(coerced.exception)
             THEN returns(str(value))
             ELSE raise(coerced.exception)

fmt_large_number(value) ==
    IF value.type = "NoneType" THEN returns("N/A")
    ELSE IF value.type # "float" THEN raise("TypeError")
    ELSE LET tiers == << <<9, "B", 2>>, <<6, "M", 2>>, <<3, "K", 1>> >>
         IN  IF ~value.nan /\ first_tier(value, tiers) # ""
             THEN returns(first_tier(value, tiers))
             ELSE returns(format_f(value, 0, TRUE))

fmt_ratio(value) ==
    IF value.type = "NoneType" THEN returns("N/A")
    ELSE LET coerced == float(value)
         IN  IF coerced.exception = "none"
             THEN returns(format_f(coerced.result, 1, FALSE) \o "x")
             ELSE IF coercion_failed(coerced.exception)
             THEN returns(str(value))
             ELSE raise(coerced.exception)

\* the values the formatters are called with
FmtValues ==
    {NoneValue, NaN,
     Number(15, 8), Number(425, -1), Number(1, 12), Number(1, 9),
     Number(1, 6), Number(99999999, -2), Number(99996, -3),
     Number(-25, 8), Number(0, 0), Number(123456, -2), Number(-1, -3),
     Number(2346, 9), Number(1525, -4), Number(1234, 0), Number(152, -1),
     Number(5, 5),
     Str(<<"1", "2", ".", "5">>), Str(<<"a", "b", "c">>), Str(<<>>),
     Str(<<"1", ",", "2", "3", "4">>), Str(<<"-", "3">>),
     List(<<"[", "]">>)}

FmtInit == fmtCall = None

CallFmtCurrency ==
    /\ \E value \in FmtValues :
          fmtCall' = Some([formatter |-> "fmt_currency", value |-> value,
                           answer |-> fmt_currency(value)])
    /\ UNCHANGED notFmt

CallFmtPct ==
    /\ \E value \in FmtValues :
          fmtCall' = Some([formatter |-> "fmt_pct", value |-> value,
                           answer |-> fmt_pct(value)])
    /\ UNCHANGED notFmt

\* fmt_number(value) with the default of two decimals, and
\* fmt_number(float(rating_val), 1)
CallFmtNumber ==
    /\ \E value \in FmtValues, decimals \in {1, 2} :
          fmtCall' = Some([formatter |-> "fmt_number", value |-> value,
                           decimals |-> decimals,
                           answer |-> fmt_number(value, decimals)])
    /\ UNCHANGED notFmt

CallFmtLargeNumber ==
    /\ \E value \in FmtValues :
          fmtCall' = Some([formatter |-> "fmt_large_number", value |-> value,
                           answer |-> fmt_large_number(value)])
    /\ UNCHANGED notFmt

CallFmtRatio ==
    /\ \E value \in FmtValues :
          fmtCall' = Some([formatter |-> "fmt_ratio", value |-> value,
                           answer |-> fmt_ratio(value)])
    /\ UNCHANGED notFmt

FmtNext ==
    \/ CallFmtCurrency
    \/ CallFmtPct
    \/ CallFmtNumber
    \/ CallFmtLargeNumber
    \/ CallFmtRatio

---------------------------------------------------------------------------
(* dashboards/universe/equity_data_provider.py: the MICs cell of a grid    *)
(* row, and its way to _mics_to_tv_markets                                 *)

\* longest MIC list of a record
MaxMics == 3

\* two venues of one market, two other markets and a code the map lacks
MicCodes == {"XNYS", "XNAS", "XLON", "XETR", "ZZZZ"}

MicLists == UNION {[1..n -> MicCodes] : n \in 0..MaxMics}

\* texts no grid row holds: no space after the comma, whitespace around the
\* codes, an empty piece, whitespace alone, the empty string
MicTexts ==
    {Some(<<"XNYS", ",", "XLON">>),
     Some(<<" ", "XLON", " ", ",", " ", " ", "XNYS", " ">>),
     Some(<<"XETR", ",", ",", "XNAS", ",", "XETR">>),
     Some(<<" ">>), Some(<<>>), Some(<<"ZZZZ", ",", "XHKG">>)}

\* ", ".join(value)
RECURSIVE join_comma_space(_)
join_comma_space(value) ==
    IF Len(value) <= 1 THEN value
    ELSE <<Head(value), ",", " ">> \o join_comma_space(Tail(value))

\* the MICs branch; any other value passes through _coerce_value, which
\* returns None for None
_format_field(name, value) ==
    IF name = "MICs" /\ value # None
    THEN (IF Val(value) # <<>> THEN Some(join_comma_space(Val(value)))
          ELSE None)
    ELSE value

MicsInit ==
    /\ micsList = None
    /\ micsText = None
    /\ micsMarkets = None

\* _equity_to_row: the MICs cell of the row of a record
FormatMicsField ==
    /\ \E value \in {None} \cup {Some(list) : list \in MicLists} :
          /\ micsList' = value
          /\ micsText' = _format_field("MICs", value)
    /\ micsMarkets' = None
    /\ UNCHANGED notMics

\* a MICs text that does not come from a row
TakeMicsText ==
    /\ \E text \in MicTexts : micsText' = text
    /\ micsList' = None
    /\ micsMarkets' = None
    /\ UNCHANGED notMics

\* markets = _mics_to_tv_markets(mics)
MicsToTvMarkets ==
    /\ micsMarkets = None
    /\ micsMarkets' = Some(_mics_to_tv_markets(micsText))
    /\ UNCHANGED <<micsList, micsText, notMics>>

MicsNext ==
    \/ FormatMicsField
    \/ TakeMicsText
    \/ MicsToTvMarkets

---------------------------------------------------------------------------
(* dashboards/universe/universe.py and grid.py: one run of the universe    *)
(* page, step by step.  A row carries the four columns the other pages     *)
(* read; the grid options are held by the columns that seed them.          *)

\* most rows of a DataFrame
MaxRows == 2

DISPLAY_COLUMNS == <<"Name", "Symbol", "Share Class FIGI", "MICs">>

\* the rows load_equities() may return
UniverseRows ==
    {Row("ACME", "ACM", Some(<<"XNYS", ",", " ", "XLON">>), "BBG1"),
     Row("BETA", "BET", None, ""),
     Row("", "ACM", None, "BBG2")}

UniverseFrames ==
    {[columns |-> DISPLAY_COLUMNS, rows |-> rows] :
        rows \in UNION {[1..n -> UniverseRows] : n \in 0..MaxRows}}

\* gb = GridOptionsBuilder.from_dataframe(df); ...; the tooltip options
_build_grid_options(frame) ==
    [columnDefs |-> frame.columns,
     tooltipShowDelay |-> 300,
     tooltipInteraction |-> TRUE,
     quickFilterText |-> None]

\* mutant: the stored options are never found
grid_options_missing_always(session_state) == TRUE

\* "grid_options" not in st.session_state
grid_options_missing(session_state) == session_state = None

UniverseInit ==
    /\ page = "universe"
    /\ uniPc = "load_equities"
    /\ universeDf = None
    /\ grid_options = None
    /\ builds = 0

\* df, snapshot_date = load_equities()
LoadEquities ==
    /\ uniPc = "load_equities"
    /\ \E frame \in UniverseFrames : universeDf' = Some(frame)
    /\ uniPc' = "get_cached_grid_options"
    /\ UNCHANGED <<page, grid_options, builds, pageVars, notUni>>

\* grid_options = get_cached_grid_options(df)
GetCachedGridOptions ==
    /\ uniPc = "get_cached_grid_options"
    /\ IF grid_options_missing(grid_options)
       THEN /\ grid_options' = Some(_build_grid_options(Val(universeDf)))
            /\ builds' = builds + 1
       ELSE UNCHANGED <<grid_options, builds>>
    /\ uniPc' = "display_grid"
    /\ UNCHANGED <<page, universeDf, pageVars, notUni>>

\* display_grid(df, grid_options, search_query), in the page run and again
\* whenever the fragment is rerun: the quick filter is written into the
\* options held by the session, the grid answers with the selected rows
\* (None, none or one: the selection is single), and a selected row is
\* stored and the page left for the equity analysis page
DisplayGrid ==
    /\ uniPc \in {"display_grid", "done"}
    /\ \E search_query \in {"", "acme"} :
          grid_options' =
              Some([Val(grid_options) EXCEPT !.quickFilterText =
                                                 Some(search_query)])
    /\ \E selected_rows \in
             {None} \cup {Some(<<>>)}
                    \cup {Some(<<row>>) :
                             row \in Range(Val(universeDf).rows)} :
          IF selected_rows # None /\ Len(Val(selected_rows)) > 0
          THEN /\ session' = selected_row_state(Val(selected_rows)[1])
               /\ page' = "equity_analysis"
               /\ uniPc' = "left"
          ELSE /\ uniPc' = "done"
               /\ UNCHANGED <<session, page>>
    /\ UNCHANGED <<universeDf, builds, elements, notUni>>

\* the universe page is opened again in the same session
RunUniverse ==
    /\ uniPc \in {"done", "left"}
    /\ page' = "universe"
    /\ uniPc' = "load_equities"
    /\ universeDf' = None
    /\ UNCHANGED <<grid_options, builds, pageVars, notUni>>

\* a new browser session: st.session_state starts empty
NewSession ==
    /\ uniPc \in {"done", "left"}
    /\ session' = <<>>
    /\ grid_options' = None
    /\ builds' = 0
    /\ page' = "universe"
    /\ uniPc' = "load_equities"
    /\ universeDf' = None
    /\ UNCHANGED <<elements, notUni>>

UniverseNext ==
    \/ LoadEquities
    \/ GetCachedGridOptions
    \/ DisplayGrid
    \/ RunUniverse
    \/ NewSession

---------------------------------------------------------------------------
(* The memoized loaders.  reports/data_provider.py decorates               *)
(* _load_equities and load_coverage_report with                            *)
(* @st.cache_resource(ttl=3600) and the six other report loaders with      *)
(* @st.cache_data(ttl=3600); analyses/equity_trends/data_provider.py       *)
(* decorates load_history with @st.cache_data(ttl=900).  A decorated       *)
(* function keeps one entry per argument tuple; a call answers from the    *)
(* entry while the entry is younger than ttl seconds, counted from the     *)
(* moment it was stored, and otherwise runs the body and stores what the   *)
(* body returns.  A body that raises stores nothing.  Every report loader  *)
(* takes no arguments and starts with equities = _load_equities(); each    *)
(* call sees the list its own call of _load_equities() returns, and the    *)
(* variable equities is left alone.                                        *)

ttl_reports == 3600
ttl_history == 900

\* the clock advances in steps of TickSeconds until it reaches MaxClock
TickSeconds == 2000
MaxClock == 4000

\* the lists retrieve_canonical_equities() can answer
UpstreamLists == {<<>>, <<AllFlagged>>, <<NoPrice, AtThresholds>>}

ReportLoaders ==
    {"load_coverage_report", "load_cross_field_consistency",
     "load_financial_ratio_consistency", "load_value_plausibility",
     "load_market_cap_distribution", "load_completeness_distribution",
     "load_sector_field_coverage"}

LoaderNames == ReportLoaders \cup {"_load_equities"}

\* a cache entry: the value, when it was stored, and when the upstream data
\* it was computed from was retrieved
Entry(value, stored_at, retrieved_at) ==
    [value |-> value, stored_at |-> stored_at, retrieved_at |-> retrieved_at]

\* the entry is present and younger than ttl
fresh(entry, ttl) == entry # None /\ clock - Val(entry).stored_at < ttl

\* mutant: the function is not memoized, every call reaches the upstream
_load_equities_unmemoized(answer) ==
    LET e == Entry(answer, clock, clock) IN
    [memo |-> [memo EXCEPT !["_load_equities"] = Some(e)],
     entry |-> e, retrieved |-> TRUE]

\* _load_equities(), where answer is what retrieve_canonical_equities()
\* returns if it is called: the entry the call answers from, the cache after
\* the call, and whether retrieve_canonical_equities() was called
_load_equities(answer) ==
    IF fresh(memo["_load_equities"], ttl_reports)
    THEN [memo |-> memo, entry |-> Val(memo["_load_equities"]),
          retrieved |-> FALSE]
    ELSE LET e == Entry(answer, clock, clock) IN
         [memo |-> [memo EXCEPT !["_load_equities"] = Some(e)],
          entry |-> e, retrieved |-> TRUE]

\* the body of a report loader on the list _load_equities() returned
loader_body(loader, eqs) ==
    CASE loader = "load_coverage_report" -> load_coverage_report(eqs)
      [] loader = "load_cross_field_consistency" -> run_cross_field_checks(eqs)
      [] loader = "load_financial_ratio_consistency" -> run_ratio_checks(eqs)
      [] loader = "load_value_plausibility" -> run_plausibility_checks(eqs)
      [] loader = "load_market_cap_distribution" ->
            load_market_cap_distribution(eqs)
      [] loader = "load_completeness_distribution" ->
            load_completeness_distribution(eqs)
      [] loader = "load_sector_field_coverage" ->
            load_sector_field_coverage(eqs)

\* a call of a decorated report loader: as _load_equities, with hit TRUE
\* when the call was answered from the loader's own entry
memoized(loader, answer) ==
    IF fresh(memo[loader], ttl_reports)
    THEN [memo |-> memo, entry |-> Val(memo[loader]), retrieved |-> FALSE,
          hit |-> TRUE]
    ELSE LET inner == _load_equities(answer)
             e == Entry(loader_body(loader, inner.entry.value), clock,
                        inner.entry.retrieved_at)
         IN [memo |-> [inner.memo EXCEPT ![loader] = Some(e)],
             entry |-> e, retrieved |-> inner.retrieved, hit |-> FALSE]

\* the effect of the call c of a report loader on the caches
Memoize(loader, c) ==
    /\ memo' = c.memo
    /\ retrievals' = IF c.retrieved THEN retrievals \cup {clock}
                     ELSE retrievals
    /\ UNCHANGED <<historyMemo, historyRetrievals>>

MemoInit ==
    /\ clock = 0
    /\ memo = [l \in LoaderNames |-> None]
    /\ retrievals = {}
    /\ historyMemo = None
    /\ historyRetrievals = {}

\* report = load_coverage_report()
MemoLoadCoverageReport ==
    /\ pc = "load_coverage_report"
    /\ \E answer \in UpstreamLists :
       LET c == memoized("load_coverage_report", answer) IN
          /\ report' = Some(c.entry.value)
          /\ Memoize("load_coverage_report", c)
    /\ pc' = "render_summary"
    /\ UNCHANGED <<equities, summary, identityTable, financialTable,
                   crossField, ratio, plausibility, completeness, marketCap,
                   heatmap>>
    /\ UNCHANGED notReportMemo

\* render_consistency_card(..., load_cross_field_consistency())
MemoLoadCrossFieldConsistency ==
    /\ pc = "load_cross_field_consistency"
    /\ \E answer \in UpstreamLists :
       LET c == memoized("load_cross_field_consistency", answer) IN
          /\ crossField' = Some(c.entry.value)
          /\ Memoize("load_cross_field_consistency", c)
    /\ pc' = "load_financial_ratio_consistency"
    /\ UNCHANGED <<equities, report, summary, identityTable, financialTable,
                   ratio, plausibility, completeness, marketCap,
                   heatmap>>
    /\ UNCHANGED notReportMemo

\* render_consistency_card(..., load_financial_ratio_consistency())
MemoLoadFinancialRatioConsistency ==
    /\ pc = "load_financial_ratio_consistency"
    /\ \E answer \in UpstreamLists :
       LET c == memoized("load_financial_ratio_consistency", answer) IN
          /\ ratio' = Some(c.entry.value)
          /\ Memoize("load_financial_ratio_consistency", c)
    /\ pc' = "load_value_plausibility"
    /\ UNCHANGED <<equities, report, summary, identityTable, financialTable,
                   crossField, plausibility, completeness, marketCap,
                   heatmap>>
    /\ UNCHANGED notReportMemo

\* render_consistency_card(..., load_value_plausibility())
MemoLoadValuePlausibility ==
    /\ pc = "load_value_plausibility"
    /\ \E answer \in UpstreamLists :
       LET c == memoized("load_value_plausibility", answer) IN
          /\ plausibility' = Some(c.entry.value)
          /\ Memoize("load_value_plausibility", c)
    /\ pc' = "render_financial_coverage"
    /\ UNCHANGED <<equities, report, summary, identityTable, financialTable,
                   crossField, ratio, completeness, marketCap, heatmap>>
    /\ UNCHANGED notReportMemo

\* render_market_cap_card(..., load_market_cap_distribution())
MemoLoadMarketCapDistribution ==
    /\ pc = "load_market_cap_distribution"
    /\ \E answer \in UpstreamLists :
       LET c == memoized("load_market_cap_distribution", answer) IN
          /\ marketCap' = Some(c.entry.value)
          /\ Memoize("load_market_cap_distribution", c)
    /\ pc' = "load_completeness_distribution"
    /\ UNCHANGED <<equities, report, summary, identityTable, financialTable,
                   crossField, ratio, plausibility, completeness, heatmap>>
    /\ UNCHANGED notReportMemo

\* render_completeness_card(..., load_completeness_distribution())
MemoLoadCompletenessDistribution ==
    /\ pc = "load_completeness_distribution"
    /\ \E answer \in UpstreamLists :
       LET c == memoized("load_completeness_distribution", answer) IN
          /\ completeness' = Some(c.entry.value)
          /\ Memoize("load_completeness_distribution", c)
    /\ pc' = "load_sector_field_coverage"
    /\ UNCHANGED <<equities, report, summary, identityTable, financialTable,
                   crossField, ratio, plausibility, marketCap, heatmap>>
    /\ UNCHANGED notReportMemo

\* render_sector_heatmap_card(..., load_sector_field_coverage())
MemoLoadSectorFieldCoverage ==
    /\ pc = "load_sector_field_coverage"
    /\ \E answer \in UpstreamLists :
       LET c == memoized("load_sector_field_coverage", answer) IN
          /\ heatmap' = Some(c.entry.value)
          /\ Memoize("load_sector_field_coverage", c)
    /\ pc' = "done"
    /\ UNCHANGED <<equities, report, summary, identityTable, financialTable,
                   crossField, ratio, plausibility, completeness, marketCap>>
    /\ UNCHANGED notReportMemo

\* The page is viewed again: the script runs from the top and every element
\* is rebuilt; the caches belong to the process and stay.
MemoStartRun ==
    /\ pc = "done"
    /\ pc' = "load_coverage_report"
    /\ report' = None
    /\ summary' = None
    /\ identityTable' = None
    /\ financialTable' = None
    /\ crossField' = None
    /\ ratio' = None
    /\ plausibility' = None
    /\ completeness' = None
    /\ marketCap' = None
    /\ heatmap' = None
    /\ UNCHANGED <<equities, notReport>>

\* load_history(figi) for one figi, called by itself: answered from the
\* entry, or by the body on what the upstream source answers now.  The body
\* stores what it returns, the empty frame of a LookupError included;
\* another exception leaves the cache as it was.  The two pages share no
\* cache entry, and the call is taken between two runs of the report script.
\* upstream is None after a call that did not reach the upstream source.
MemoLoadHistory ==
    /\ pc = "load_coverage_report"
    /\ trendsPc = "idle"
    /\ IF fresh(historyMemo, ttl_history)
       THEN /\ history' = Some(Val(historyMemo).value)
            /\ upstream' = None
            /\ trendsRaised' = FALSE
            /\ UNCHANGED <<historyMemo, historyRetrievals>>
       ELSE \E answer \in HistoryAnswers :
               LET call == load_history(answer)
               IN  /\ upstream' = Some(answer)
                   /\ IF call.exception # "none"
                      THEN /\ trendsRaised' = TRUE
                           /\ history' = None
                           /\ UNCHANGED <<historyMemo, historyRetrievals>>
                      ELSE /\ trendsRaised' = FALSE
                           /\ history' = call.result
                           /\ historyMemo' =
                                 Some(Entry(Val(call.result), clock, clock))
                           /\ historyRetrievals' =
                                 historyRetrievals \cup {clock}
    /\ UNCHANGED <<memo, retrievals, trendsPc>>
    /\ UNCHANGED notTrendsMemo

\* time passes
Tick ==
    /\ clock < MaxClock
    /\ clock' = clock + TickSeconds
    /\ UNCHANGED notTime

MemoNext ==
    \/ MemoLoadCoverageReport
    \/ RenderSummary
    \/ RenderIdentityCoverage
    \/ MemoLoadCrossFieldConsistency
    \/ MemoLoadFinancialRatioConsistency
    \/ MemoLoadValuePlausibility
    \/ RenderFinancialCoverage
    \/ MemoLoadMarketCapDistribution
    \/ MemoLoadCompletenessDistribution
    \/ MemoLoadSectorFieldCoverage
    \/ MemoStartRun
    \/ MemoLoadHistory
    \/ Tick

---------------------------------------------------------------------------
(* analyses/equity_analysis/tradingview.py: resolve_tv_symbol and          *)
(* fetch_logo under @st.cache_data(ttl=3600).  An entry is kept per        *)
(* argument tuple; whatever the body returns is stored, the fallback of a  *)
(* failed lookup like a symbol that was found; a body that raises stores   *)
(* nothing.  A call is one action: answered from the entry, or by the body *)
(* on the scanner's answers to the requests it sends.                      *)

ttl_tradingview == 3600

\* the argument tuples resolve_tv_symbol is called with
ResolveArgs ==
    {[symbol |-> "ACM", equity_name |-> "ACME", mics |-> None],
     [symbol |-> "ACM", equity_name |-> "", mics |-> Some(<<"XNYS">>)]}

\* the symbols fetch_logo is called with
LogoArgs == {"ACM", "NYSE:ACM"}

\* what the scanner answers to a search: three failures, no row, a row
MemoScanResponses ==
    {r \in ScanResponses :
        \/ r.outcome \in {"connect_error", "http_error", "not_json",
                          "data_empty"}
        \/ r.value = Some("NYSE:ACM")}

\* a cache entry; failed is TRUE when the value is the fallback of a body
\* that met a network or decoding failure
TvEntry(value, failed) ==
    [value |-> value, stored_at |-> clock, failed |-> failed]

\* the loop of resolve_tv_symbol from search n on: answers[i] is the
\* scanner's answer to search i, sent the requests sent so far, failed
\* whether a search so far has failed
RECURSIVE resolve_loop(_, _, _, _, _)
resolve_loop(n, args, answers, sent, failed) ==
    LET all == searches(args.symbol, args.equity_name)
    IN  IF n > Len(all)
        THEN [exception |-> "none", result |-> resolve_fallback(args.symbol),
              sent |-> sent, failed |-> failed]
        ELSE IF all[n][2] = ""
        THEN resolve_loop(n + 1, args, answers, sent, failed)
        ELSE LET markets == _mics_to_tv_markets(args.mics)
                 body == _build_scan_request(all[n][1], all[n][2], all[n][3],
                                             markets)
                 answer == _try_scan(answers[n])
             IN  IF answer.exception # "none"
                 THEN [exception |-> answer.exception, result |-> "",
                       sent |-> Append(sent, body), failed |-> TRUE]
                 ELSE IF answer.result # None
                 THEN [exception |-> "none", result |-> Val(answer.result),
                       sent |-> Append(sent, body), failed |-> FALSE]
                 ELSE resolve_loop(n + 1, args, answers, Append(sent, body),
                                   failed \/ answers[n].outcome \in Failures)

\* the body of resolve_tv_symbol(symbol, equity_name, mics)
resolve_tv_symbol(args, answers) == resolve_loop(1, args, answers, <<>>, FALSE)

TvMemoInit ==
    /\ symbolMemo = [a \in ResolveArgs |-> None]
    /\ logoMemo = [s \in LogoArgs |-> None]

\* equity_analysis.py is run for a selected equity and calls
\* resolve_tv_symbol(symbol, name, mics); requests holds the requests of
\* this run (the answers are not kept)
MemoResolveTvSymbol ==
    /\ tvPc \in {"idle", "done", "failed"}
    /\ \E args \in ResolveArgs :
          /\ tvArgs' = args
          /\ IF fresh(symbolMemo[args], ttl_tradingview)
             THEN /\ tvSymbol' = Some(Val(symbolMemo[args]).value)
                  /\ requests' = <<>>
                  /\ raised' = FALSE
                  /\ tvPc' = "fetch_logo"
                  /\ UNCHANGED symbolMemo
             ELSE \E answers \in [1..3 -> MemoScanResponses] :
                     LET call == resolve_tv_symbol(args, answers)
                     IN  /\ requests' = call.sent
                         /\ IF call.exception # "none"
                            THEN /\ raised' = TRUE
                                 /\ tvPc' = "failed"
                                 /\ tvSymbol' = None
                                 /\ UNCHANGED symbolMemo
                            ELSE /\ raised' = FALSE
                                 /\ tvPc' = "fetch_logo"
                                 /\ tvSymbol' = Some(call.result)
                                 /\ symbolMemo' =
                                      [symbolMemo EXCEPT ![args] =
                                         Some(TvEntry(call.result,
                                                      call.failed))]
    /\ elements' = <<>>
    /\ tvLogo' = None
    /\ UNCHANGED <<tier, responses, session, logoMemo>>
    /\ UNCHANGED notTvAndMemo

\* logo = fetch_logo(tv_symbol), for the symbols the model keeps entries of
MemoFetchLogo ==
    /\ tvPc = "fetch_logo"
    /\ Val(tvSymbol) \in LogoArgs
    /\ LET tv_sym == Val(tvSymbol)
       IN  IF fresh(logoMemo[tv_sym], ttl_tradingview)
           THEN /\ tvLogo' = Some(Val(logoMemo[tv_sym]).value)
                /\ tvPc' = "render"
                /\ UNCHANGED <<requests, raised, logoMemo>>
           ELSE \E resp \in LogoResponses :
                   LET call == fetch_logo(resp)
                   IN  /\ requests' = Append(requests, logo_request(tv_sym))
                       /\ IF call.exception # "none"
                          THEN /\ raised' = TRUE
                               /\ tvPc' = "failed"
                               /\ UNCHANGED <<tvLogo, logoMemo>>
                          ELSE /\ tvLogo' = Some(call.result)
                               /\ tvPc' = "render"
                               /\ logoMemo' =
                                    [logoMemo EXCEPT ![tv_sym] =
                                       Some(TvEntry(call.result,
                                                    resp.outcome \in Failures))]
                               /\ UNCHANGED raised
    /\ UNCHANGED <<tvArgs, tier, responses, tvSymbol, symbolMemo>>
    /\ UNCHANGED <<pageVars, notTvAndMemo>>

TvMemoNext ==
    \/ MemoResolveTvSymbol
    \/ MemoFetchLogo
    \/ RenderAnalysis
    \/ Tick

---------------------------------------------------------------------------
(* Specifications *)

Init ==
    /\ ReportInit /\ OverallInit /\ TVInit /\ TrendsInit /\ FmtInit
    /\ MicsInit /\ UniverseInit /\ MemoInit /\ TvMemoInit

Next ==
    \/ ReportNext \/ OverallNext \/ TVNext \/ TrendsNext \/ FmtNext
    \/ MicsNext \/ UniverseNext \/ MemoNext \/ TvMemoNext

\* the whole application
Spec == Init /\ [][Next]_vars

\* the integrity report page alone
SpecReport == Init /\ [][ReportNext]_vars

\* _overall_coverage alone
SpecOverall == Init /\ [][OverallNext]_vars

\* the equity analysis page alone
SpecTV == Init /\ [][TVNext]_vars

\* the equity analysis page and the equity trends page, one on display at a
\* time
SpecPages == Init /\ [][TVNext \/ TrendsNext]_vars

\* the display formatters alone
SpecFmt == Init /\ [][FmtNext]_vars

\* the MIC codes of a record on their way to the scanner markets
SpecMics == Init /\ [][MicsNext]_vars

\* the universe page alone
SpecUniverse == Init /\ [][UniverseNext]_vars

\* the integrity report page and load_history with their memoized loaders,
\* while time passes and the upstream store changes
SpecMemo == Init /\ [][MemoNext]_vars

\* the equity analysis page with its memoized lookups, while time passes
SpecTvMemo == Init /\ [][TvMemoNext]_vars

---------------------------------------------------------------------------
(* Properties of the integrity report *)

\* the indices of the current equity list
Records == DOMAIN equities

\* the financial values of record i
Fin(i) == equities[i].financials

InPercentRange(p) == FracLeq(FracZero, p) /\ FracLeq(p, FracOfInt(100))

CoverageWellFormed(coverage, fields) ==
    /\ Len(coverage) = Len(fields)
    /\ \A i \in DOMAIN coverage :
          /\ 0 <= coverage[i].count
          /\ coverage[i].count <= coverage[i].total
          /\ coverage[i].total = Len(equities)

TableWellFormed(table, coverage) ==
    /\ Len(table) = Len(coverage)
    /\ \A i \in DOMAIN table :
          /\ InPercentRange(table[i].Coverage)
          /\ coverage[i].total = 0 => table[i].Coverage.num = 0
          /\ table[i].Coverage.den > 0
          /\ coverage[i].total # 0 =>
                table[i].Coverage.num * coverage[i].total
                    = 100 * coverage[i].count * table[i].Coverage.den

\* C1: for every equity list, the empty one included, each FieldCoverage of
\* the identity and financial groups has 0 <= count <= total and total equal
\* to the number of equities, and the percentage shown for it is
\* 100 * count / total, lies in [0, 100] and is 0 when total is 0.
C1_CoverageBounds ==
    /\ report # None =>
          /\ CoverageWellFormed(Val(report).identity_coverage, identity_fields)
          /\ CoverageWellFormed(Val(report).financial_coverage,
                                financial_fields)
    /\ identityTable # None =>
          TableWellFormed(Val(identityTable), Val(report).identity_coverage)
    /\ financialTable # None =>
          TableWellFormed(Val(financialTable), Val(report).financial_coverage)

\* C1 witness: both tables are rendered for two equities and some financial
\* field is populated in exactly one of them (50%).
C1_Witness ==
    /\ identityTable # None
    /\ financialTable # None
    /\ Len(equities) = 2
    /\ \E i \in DOMAIN Val(financialTable) :
          /\ Val(report).financial_coverage[i].count = 1
          /\ FracEq(Val(financialTable)[i].Coverage, FracOfInt(50))

\* the records in which every attribute of attrs is present
AllPresent(attrs) == {i \in Records : \A a \in attrs : Fin(i)[a] # None}

PriceTriple(i) ==
    <<Fin(i).last_price, Fin(i).fifty_two_week_min, Fin(i).fifty_two_week_max>>

\* C3: "Price outside 52-week range" counts exactly the records with price,
\* min and max present and price < min or price > 1.05 * max (that is,
\* 20 * price > 21 * max); price 100 in [50, 90] is counted, price 94 is not,
\* and a price just below min is counted.
C3_PriceOutsideRange ==
    plausibility # None =>
        LET finding == Val(plausibility)[2]
            price(i) == Val(Fin(i).last_price)
            lo(i) == Val(Fin(i).fifty_two_week_min)
            hi(i) == Val(Fin(i).fifty_two_week_max)
        IN  /\ finding.description = "Price outside 52-week range"
            /\ finding.count =
                  Cardinality({i \in AllPresent({"last_price",
                                  "fifty_two_week_min", "fifty_two_week_max"}) :
                      price(i) < lo(i) \/ 20 * price(i) > 21 * hi(i)})
            /\ (\A i \in Records :
                   PriceTriple(i) = <<Some(10000), Some(5000), Some(9000)>>)
                  => finding.count = Len(equities)
            /\ (\A i \in Records :
                   PriceTriple(i) = <<Some(9400), Some(5000), Some(9000)>>)
                  => finding.count = 0
            /\ (\A i \in Records :
                   PriceTriple(i) = <<Some(4999), Some(5000), Some(9000)>>)
                  => finding.count = Len(equities)

\* C3 witness: price 100 and price 94 against [50, 90]: one record counted.
C3_Witness ==
    /\ plausibility # None
    /\ equities = <<AllFlagged, AtThresholds>>
    /\ Val(plausibility)[2].count = 1

HoldingsPair(i) == <<Fin(i).held_insiders, Fin(i).held_institutions>>

\* C4: "Holdings exceed 100%" counts exactly the records with both holdings
\* present and a sum strictly above 1.05; 0.6 + 0.5 is counted, a sum of
\* exactly 1.05 is not.
C4_HoldingsExceed ==
    plausibility # None =>
        LET finding == Val(plausibility)[5]
        IN  /\ finding.description = "Holdings exceed 100%"
            /\ finding.count =
                  Cardinality({i \in AllPresent({"held_insiders",
                                                 "held_institutions"}) :
                      Val(Fin(i).held_insiders)
                        + Val(Fin(i).held_institutions) > 105})
            /\ (\A i \in Records : HoldingsPair(i) = <<Some(60), Some(50)>>)
                  => finding.count = Len(equities)
            /\ (\A i \in Records : HoldingsPair(i) = <<Some(55), Some(50)>>)
                  => finding.count = 0

\* C4 witness: sums 1.05, 1.06 in one list: only the second is counted.
C4_Witness ==
    /\ plausibility # None
    /\ equities = <<AtThresholds, AtTolerance>>
    /\ Val(plausibility)[5].count = 1

\* the records in which some attribute of attrs is present with an absolute
\* value above limit
SomeExtreme(attrs, limit) ==
    {i \in Records :
        \E a \in attrs : Fin(i)[a] # None /\ Abs(Val(Fin(i)[a])) > limit}

\* C5: no ratio-ordering or range-plausibility check counts a record in
\* which an operand it compares is missing: each count is at most the number
\* of records with all compared operands present (for ROE/ROA: with some
\* present operand that is itself extreme).
C5_MissingOperandNotCounted ==
    /\ ratio # None =>
          /\ Val(ratio)[1].count
                <= Cardinality(AllPresent({"profit_margin", "gross_margin"}))
          /\ Val(ratio)[2].count
                <= Cardinality(AllPresent({"operating_margin", "gross_margin"}))
    /\ plausibility # None =>
          /\ Val(plausibility)[1].count
                <= Cardinality(AllPresent({"fifty_two_week_min",
                                           "fifty_two_week_max"}))
          /\ Val(plausibility)[2].count
                <= Cardinality(AllPresent({"last_price", "fifty_two_week_min",
                                           "fifty_two_week_max"}))
          /\ Val(plausibility)[3].count
                <= Cardinality(AllPresent({"dividend_yield"}))
          /\ Val(plausibility)[4].count
                <= Cardinality(AllPresent({"trailing_pe"}))
          /\ Val(plausibility)[5].count
                <= Cardinality(AllPresent({"held_insiders",
                                           "held_institutions"}))
          /\ Val(plausibility)[6].count
                <= Cardinality(SomeExtreme({"return_on_equity",
                                            "return_on_assets"}, 500))

\* C5 witness: two records, each with one operand of every pair missing and
\* the other extreme; only the ROE/ROA check counts one, on its present ROA.
C5_Witness ==
    /\ pc = "done"
    /\ equities = <<BelowMin, NoPrice>>
    /\ Val(ratio)[1].count = 0
    /\ Val(ratio)[2].count = 0
    /\ Val(plausibility)[5].count = 0
    /\ Val(plausibility)[6].count = 1

\* C6: the completeness score of a record is the number of its 31 financial
\* fields that are present, so it lies in 0..31 (15 for 15 populated fields);
\* the distribution holds one score per equity, and its median and mean are
\* 0 for the empty list.
C6_CompletenessScore ==
    completeness # None =>
        LET dist == Val(completeness)
        IN  /\ Cardinality(FinancialAttrs) = 31
            /\ dist.count = Len(equities)
            /\ Len(dist.values) = Len(equities)
            /\ \A i \in Records :
                  /\ dist.values[i]
                        = Cardinality({a \in FinancialAttrs : Fin(i)[a] # None})
                  /\ dist.values[i] \in 0..31
            /\ equities = <<>> => dist.median.num = 0 /\ dist.mean.num = 0
            /\ equities # <<>> =>
                  dist.mean.num * Len(equities)
                      = SumSeq(dist.values) * dist.mean.den

\* C6 witness: a record with exactly 15 populated fields scores 15, next to
\* one with all 31.
C6_Witness ==
    /\ completeness # None
    /\ equities = <<Populated(15), Populated(31)>>
    /\ Val(completeness).values = <<15, 31>>

---------------------------------------------------------------------------
(* Properties of _overall_coverage *)

\* C2: the overall coverage of a field group is 100 * (sum of the counts) /
\* (sum of the totals), and 0 when the sum of the totals is 0: the weighted
\* average of the fields, not the mean of their percentages.
C2_OverallWeighted ==
    overallResult # None =>
        LET counts == SumSeq([i \in DOMAIN coverageArg |-> coverageArg[i].count])
            totals == SumSeq([i \in DOMAIN coverageArg |-> coverageArg[i].total])
            overall == Val(overallResult)
        IN  /\ overall.den > 0
            /\ totals = 0 => overall.num = 0
            /\ totals # 0 => overall.num * totals = 100 * counts * overall.den

\* C2 witness: fields 1/1 and 0/2 give 100 * 1 / 3, where the mean of the
\* percentages would be 50.
C2_Witness ==
    /\ overallResult # None
    /\ coverageArg = << [label |-> "f", count |-> 1, total |-> 1],
                        [label |-> "f", count |-> 0, total |-> 2] >>
    /\ FracEq(Val(overallResult), Frac(100, 3))
    /\ ~FracEq(Val(overallResult), _overall_coverage_arithmetic(coverageArg))

---------------------------------------------------------------------------
(* Properties of the symbol and logo resolution *)

\* the positions of the scanner search requests and of the logo requests
ScanRequests == {k \in DOMAIN requests : requests[k].kind = "scan"}
LogoRequests == {k \in DOMAIN requests : requests[k].kind = "logo"}

\* the answer carries a symbol (or logo) in its first row
YieldsResult(resp) == resp.outcome = "row" /\ resp.value # None

\* the three tiers in the order the specification gives them
Tiers ==
    << [left |-> "name", operation |-> "equal", right |-> tvArgs.symbol],
       [left |-> "description", operation |-> "match",
        right |-> tvArgs.equity_name],
       [left |-> "name", operation |-> "match", right |-> tvArgs.symbol] >>

\* the tiers that have a query
Queried == SelectSeq(Tiers, LAMBDA t : t.right # "")

SameSearch(request, t) ==
    /\ request.left = t.left
    /\ request.operation = t.operation
    /\ request.right = t.right

\* C7: the scanner is queried in the order exact ticker on name, fuzzy name
\* on description, fuzzy ticker on name; the symbol of the first tier that
\* yields a result is returned, and no tier is queried after one succeeded.
C7_TierOrder ==
    LET n == Cardinality(ScanRequests)
    IN  /\ ScanRequests = 1..n
        /\ n <= Len(Queried)
        /\ \A k \in 1..n : SameSearch(requests[k], Queried[k])
        /\ \A k \in 1..(n - 1) : ~YieldsResult(responses[k])
        /\ tvSymbol # None =>
              IF n > 0 /\ YieldsResult(responses[n])
              THEN tvSymbol = responses[n].value
              ELSE n = Len(Queried)

\* C7 witness: the exact search found nothing, the name search did; its
\* symbol is returned after two requests.
C7_Witness ==
    /\ tvPc = "done"
    /\ tvArgs.symbol = "ACM"
    /\ tvArgs.equity_name = "ACME"
    /\ Cardinality(ScanRequests) = 2
    /\ responses[1].outcome = "data_empty"
    /\ responses[2] = [outcome |-> "row", value |-> Some("LSE:ACM")]
    /\ tvSymbol = Some("LSE:ACM")

\* C8: when no tier yields a result (empty answers, a row without symbol,
\* skipped tiers, failures) resolve_tv_symbol returns the ticker it was given.
C8_FallbackToTicker ==
    (tvSymbol # None /\ \A k \in ScanRequests : ~YieldsResult(responses[k]))
        => tvSymbol = Some(tvArgs.symbol)

\* C8 witness: an empty answer, a row without symbol and a timeout: the
\* ticker comes back.
C8_Witness ==
    /\ tvSymbol = Some("ACM")
    /\ Cardinality(ScanRequests) = 3
    /\ responses[1].outcome = "data_empty"
    /\ responses[2] = [outcome |-> "row", value |-> None]
    /\ responses[3].outcome = "timeout"

\* C9: a failed HTTP call (connection error, timeout, non-success status,
\* malformed body) never raises into the page: after a failed search the next
\* tier with a query is still attempted, and a failed logo call gives None.
C9_FailuresSwallowed ==
    /\ raised = FALSE
    /\ tvPc # "failed"
    /\ \A k \in ScanRequests :
          (responses[k].outcome \in Failures /\ tvSymbol # None)
              => \/ k = Len(Queried)
                 \/ (k + 1 \in ScanRequests
                        /\ SameSearch(requests[k + 1], Queried[k + 1]))
    /\ \A k \in LogoRequests :
          responses[k].outcome \in Failures => tvLogo = Some(None)

\* C9 witness: a connection error, a bad status and a body that is no JSON
\* in the three tiers, a timeout in the logo call, and the page is rendered.
C9_Witness ==
    /\ tvPc = "done"
    /\ ~raised
    /\ Len(responses) = 4
    /\ responses[1].outcome = "connect_error"
    /\ responses[2].outcome = "http_error"
    /\ responses[3].outcome = "not_json"
    /\ responses[4].outcome = "timeout"
    /\ tvSymbol = Some("ACM")
    /\ tvLogo = Some(None)

\* C10: one run of resolve_tv_symbol sends at most one request per tier, at
\* most three in all and none for an empty query; fetch_logo sends at most
\* one; no request is sent twice.
C10_NoRetries ==
    /\ Cardinality(ScanRequests) <= 3
    /\ Cardinality(LogoRequests) <= 1
    /\ \A i \in DOMAIN Tiers :
          /\ Cardinality({k \in ScanRequests :
                             SameSearch(requests[k], Tiers[i])}) <= 1
          /\ Tiers[i].right = "" =>
                ~\E k \in ScanRequests : /\ requests[k].left = Tiers[i].left
                                         /\ requests[k].operation
                                               = Tiers[i].operation
    /\ \A j, k \in DOMAIN requests : j # k => requests[j] # requests[k]

\* C10 witness: with an empty ticker only the name search is sent; it fails
\* and is not sent again, and one logo request follows.
C10_Witness ==
    /\ tvPc = "done"
    /\ tvArgs.symbol = ""
    /\ tvArgs.equity_name = "ACME"
    /\ Cardinality(ScanRequests) = 1
    /\ responses[1].outcome \in Failures
    /\ Cardinality(LogoRequests) = 1
    /\ Len(requests) = 2

---------------------------------------------------------------------------
(* Properties of the consistency findings *)

\* the records in which exactly one attribute of the pair is present
ExactlyOne(a, b) == {i \in Records : (Fin(i)[a] # None) # (Fin(i)[b] # None)}

\* the records in which attribute a is present and attribute b is absent
OnlyFirst(a, b) == {i \in Records : Fin(i)[a] # None /\ Fin(i)[b] = None}

\* C18: for the pair (last price, market cap) a record with exactly one of
\* the two present is counted, by the finding of the side that is present
\* and by no other; "Partial 52-week range" counts a record if and only if
\* exactly one of 52-week min and 52-week max is present.
C18_PresencePairing ==
    crossField # None =>
        LET findings == Val(crossField)
        IN  /\ findings[1].description = "Price recorded without market cap"
            /\ findings[2].description = "Market cap recorded without price"
            /\ findings[4].description = "Partial 52-week range"
            /\ findings[1].count
                  = Cardinality(OnlyFirst("last_price", "market_cap"))
            /\ findings[2].count
                  = Cardinality(OnlyFirst("market_cap", "last_price"))
            /\ findings[1].count + findings[2].count
                  = Cardinality(ExactlyOne("last_price", "market_cap"))
            /\ findings[4].count
                  = Cardinality(ExactlyOne("fifty_two_week_min",
                                           "fifty_two_week_max"))

\* C18 witness: price without cap and minimum without maximum in one record,
\* cap without price and a full range in the other.
C18_Witness ==
    /\ crossField # None
    /\ equities = <<NoMax, NoPrice>>
    /\ Val(crossField)[1].count = 1
    /\ Val(crossField)[2].count = 1
    /\ Val(crossField)[4].count = 1

\* the records with both margins present and margin a strictly above gross
ExceedsGross(a) ==
    {i \in AllPresent({a, "gross_margin"}) :
        Val(Fin(i)[a]) > Val(Fin(i).gross_margin)}

\* C19: "Profit margin exceeds gross margin" counts a record if and only if
\* both margins are present and profit_margin > gross_margin, "Operating
\* margin exceeds gross margin" likewise with operating_margin; records with
\* equal margins are not counted.
C19_RatioOrdering ==
    ratio # None =>
        LET findings == Val(ratio)
        IN  /\ findings[1].description = "Profit margin exceeds gross margin"
            /\ findings[2].description
                  = "Operating margin exceeds gross margin"
            /\ findings[1].count = Cardinality(ExceedsGross("profit_margin"))
            /\ findings[2].count
                  = Cardinality(ExceedsGross("operating_margin"))
            /\ (\A i \in Records :
                   /\ Fin(i).gross_margin # None
                   /\ Fin(i).profit_margin = Fin(i).gross_margin)
                  => findings[1].count = 0
            /\ (\A i \in Records :
                   /\ Fin(i).gross_margin # None
                   /\ Fin(i).operating_margin = Fin(i).gross_margin)
                  => findings[2].count = 0

\* C19 witness: operating margin equal to gross margin in one record and
\* above it in the other: only the second is counted.
C19_Witness ==
    /\ ratio # None
    /\ equities = <<NegativeCap, AllFlagged>>
    /\ Val(ratio)[1].count = 1
    /\ Val(ratio)[2].count = 1

\* the records in which attribute a is present with a value above limit
Above(a, limit) == {i \in AllPresent({a}) : Val(Fin(i)[a]) > limit}

\* C20: the dividend yield finding counts a record iff the yield is present
\* and > 1; the trailing P/E finding iff the ratio is present and its
\* absolute value > 1000; "52-week min exceeds max" iff both are present and
\* min > max; the ROE/ROA finding iff at least one of the two is present
\* with absolute value > 5.  Values exactly at the threshold are not counted.
C20_StrictThresholds ==
    plausibility # None =>
        LET findings == Val(plausibility)
        IN  /\ findings[1].description = "52-week min exceeds max"
            /\ findings[1].count =
                  Cardinality({i \in AllPresent({"fifty_two_week_min",
                                                 "fifty_two_week_max"}) :
                      Val(Fin(i).fifty_two_week_min)
                          > Val(Fin(i).fifty_two_week_max)})
            /\ findings[3].description = "Extreme dividend yield (>100%)"
            /\ findings[3].count = Cardinality(Above("dividend_yield", 100))
            /\ findings[4].description = "Extreme trailing P/E (+-1000)"
            /\ findings[4].count =
                  Cardinality(SomeExtreme({"trailing_pe"}, 100000))
            /\ findings[6].description = "Extreme ROE or ROA (+-500%)"
            /\ findings[6].count =
                  Cardinality(SomeExtreme({"return_on_equity",
                                           "return_on_assets"}, 500))
            /\ (\A i \in Records : Fin(i).dividend_yield = Some(100))
                  => findings[3].count = 0
            /\ (\A i \in Records : Fin(i).trailing_pe \in
                                      {Some(100000), Some(-100000)})
                  => findings[4].count = 0
            /\ (\A i \in Records :
                   /\ Fin(i).fifty_two_week_min # None
                   /\ Fin(i).fifty_two_week_min = Fin(i).fifty_two_week_max)
                  => findings[1].count = 0
            /\ (\A i \in Records :
                   /\ Fin(i).return_on_equity \in {None, Some(500), Some(-500)}
                   /\ Fin(i).return_on_assets \in {None, Some(500), Some(-500)})
                  => findings[6].count = 0

\* C20 witness: a record with every value on its threshold and a record with
\* a negative P/E beyond -1000: only the P/E of the second is counted; and a
\* later run counts an ROA below -5 whose ROE is null.
C20_Witness ==
    /\ pc = "done"
    /\ \/ /\ equities = <<AtThresholds, NoPrice>>
          /\ Val(plausibility)[3].count = 0
          /\ Val(plausibility)[4].count = 1
          /\ Val(plausibility)[6].count = 0
       \/ /\ equities = <<ZeroCap, BelowMin>>
          /\ Val(plausibility)[1].count = 0
          /\ Val(plausibility)[6].count = 1

---------------------------------------------------------------------------
(* Properties of the market cap distribution and of the sector heatmap *)

\* the records with a market cap that is present and strictly positive
PositiveCaps ==
    {i \in Records : Fin(i).market_cap # None /\ Val(Fin(i).market_cap) > 0}

\* the market cap of record i if it is counted, else 0
CountedCap(i) == IF i \in PositiveCaps THEN Val(Fin(i).market_cap) ELSE 0

\* m is a median of the market caps of the records of PositiveCaps: at least
\* half of them are <= m and at least half of them are >= m
IsMedianOfCaps(m) ==
    /\ 2 * Cardinality({i \in PositiveCaps :
                           FracLeq(FracOfInt(Val(Fin(i).market_cap)), m)})
          >= Cardinality(PositiveCaps)
    /\ 2 * Cardinality({i \in PositiveCaps :
                           FracLeq(m, FracOfInt(Val(Fin(i).market_cap)))})
          >= Cardinality(PositiveCaps)

\* C17: the market cap distribution holds exactly the market caps of the
\* records whose market cap is present and strictly positive (null, zero and
\* negative are left out), in list order; its count is the number of such
\* records, its mean is their sum divided by the count, its median is a
\* median of them, and mean and median are 0 when there is no such record.
C17_MarketCapDistribution ==
    marketCap # None =>
        LET d == Val(marketCap)
        IN  /\ d.count = Cardinality(PositiveCaps)
            /\ Len(d.values) = d.count
            /\ \A k \in DOMAIN d.values : d.values[k] > 0
            /\ \E at \in [DOMAIN d.values -> Records] :
                  /\ \A k \in DOMAIN d.values :
                        /\ at[k] \in PositiveCaps
                        /\ d.values[k] = Val(Fin(at[k]).market_cap)
                  /\ \A k, l \in DOMAIN d.values : k < l => at[k] < at[l]
            /\ PositiveCaps = {} =>
                  /\ FracEq(d.median, FracZero)
                  /\ FracEq(d.mean, FracZero)
            /\ PositiveCaps # {} =>
                  /\ d.mean.den > 0
                  /\ d.mean.num * d.count
                        = SumSeq([i \in Records |-> CountedCap(i)])
                            * d.mean.den
                  /\ d.median.den > 0
                  /\ IsMedianOfCaps(d.median)

\* C17 witness: a zero market cap and a positive one: the distribution holds
\* the positive one only; and, in another run, a negative and a zero market
\* cap give an empty distribution.
C17_Witness ==
    /\ marketCap # None
    /\ \/ /\ equities = <<ZeroCap, NoPrice>>
          /\ Val(marketCap).count = 1
          /\ Val(marketCap).values = <<700000>>
       \/ /\ equities = <<NegativeCap, ZeroCap>>
          /\ Val(marketCap).count = 0

\* the sectors of the records that have one
Sectors ==
    {Val(Fin(i).sector) : i \in {r \in Records : Fin(r).sector # None}}

\* the records of a sector
Members(sector) == {i \in Records : Fin(i).sector = Some(sector)}

HeatmapLabels == {heatmap_fields[j][2] : j \in DOMAIN heatmap_fields}

\* the attribute shown under a column label
AttrOf(label) ==
    (CHOOSE f \in Range(heatmap_fields) : f[2] = label)[1]

\* every sector with records is one row, and the rows are those sectors
OneRowPerSector(h) ==
    /\ Len(h.sectors) = Cardinality(Sectors)
    /\ Range(h.sectors) = Sectors
    /\ Len(h.percentages) = Len(h.sectors)

\* every heatmap field is one column, and the columns are those fields
OneColumnPerField(h) ==
    /\ Len(h.fields) = Len(heatmap_fields)
    /\ Range(h.fields) = HeatmapLabels
    /\ \A g \in DOMAIN h.percentages :
          Len(h.percentages[g]) = Len(h.fields)

\* the cell of row g and column j is the coverage percentage of the field of
\* column j among the records of the sector of row g
CellsAreCoverage(h) ==
    \A g \in DOMAIN h.percentages : \A j \in DOMAIN h.percentages[g] :
        LET members == Members(h.sectors[g])
            populated == {i \in members : Fin(i)[AttrOf(h.fields[j])] # None}
            cell == h.percentages[g][j]
        IN  /\ cell.den > 0
            /\ cell.num * Cardinality(members)
                  = 100 * Cardinality(populated) * cell.den

\* C15 as stated: for every equity list the heatmap has one row per distinct
\* non-null sector and one column per heatmap field, and each cell is the
\* coverage percentage of its field among the records of its sector.
C15_AsStated ==
    heatmap # None =>
        /\ OneRowPerSector(Val(heatmap))
        /\ OneColumnPerField(Val(heatmap))
        /\ CellsAreCoverage(Val(heatmap))

\* C15: the heatmap has exactly one row per distinct non-null sector (a
\* record with a null sector is in no row); when at least one record has a
\* sector it has one column per heatmap field, and when none has it has no
\* column at all; the cell of row i and column j is the coverage percentage
\* of field j among the records of sector i.
C15_HeatmapShape ==
    heatmap # None =>
        /\ OneRowPerSector(Val(heatmap))
        /\ Sectors # {} => OneColumnPerField(Val(heatmap))
        /\ Sectors = {} => Val(heatmap).fields = <<>>
        /\ CellsAreCoverage(Val(heatmap))

\* C15 witness: one record with a sector and one without: one row, whose
\* cells are 0 or 100 according to the first record alone, and both rows and
\* columns are reordered in a list with two sectors.
C15_Witness ==
    /\ heatmap # None
    /\ \/ /\ equities = <<NoMin, BelowMin>>
          /\ Val(heatmap).sectors = <<"Energy">>
          /\ Len(Val(heatmap).fields) = 28
          /\ Val(heatmap).fields[1] = "Last Price"
       \/ /\ equities = <<AllFlagged, AtTolerance>>
          /\ Val(heatmap).sectors = <<"Energy", "Tech">>
          /\ Val(heatmap).fields[28] = "Analyst Rating"

\* the mean of a non-empty sequence of fractions
MeanOf(values) == divided(sum(values), Len(values))

\* the column j of the displayed matrix
Column(h, j) == [g \in DOMAIN h.percentages |-> h.percentages[g][j]]

\* C16: the sectors are in the order of non-decreasing mean of their row of
\* percentages, and the fields in the order of non-increasing mean of their
\* column of percentages over all sectors.
C16_HeatmapOrder ==
    heatmap # None =>
        LET h == Val(heatmap)
        IN  /\ \A g \in DOMAIN h.percentages :
                  (g + 1 \in DOMAIN h.percentages) =>
                      FracLeq(MeanOf(h.percentages[g]),
                              MeanOf(h.percentages[g + 1]))
            /\ \A j \in DOMAIN h.fields :
                  (j + 1 \in DOMAIN h.fields) =>
                      FracLeq(MeanOf(Column(h, j + 1)), MeanOf(Column(h, j)))

\* C16 witness: the denser sector comes first in the list and last in the
\* heatmap, and a field the sparser sector lacks is ranked below one that
\* both sectors have.
C16_Witness ==
    /\ heatmap # None
    /\ equities = <<AllFlagged, BelowMin>>
    /\ Val(heatmap).sectors = <<"Energy", "Tech">>
    /\ Val(heatmap).fields[1] = "Last Price"
    /\ \E j \in DOMAIN Val(heatmap).fields :
          /\ Val(heatmap).fields[j] = "Market Cap"
          /\ j > 1
          /\ FracEq(MeanOf(Column(Val(heatmap), j)), FracOfInt(50))

---------------------------------------------------------------------------
(* Properties of the session state guard and of the trends page *)

\* selected_equity_data or selected_equity_name is absent from session state
\* or empty
SelectionMissing ==
    IF "selected_equity_data" \notin DOMAIN session THEN TRUE
    ELSE IF DOMAIN session["selected_equity_data"] = {} THEN TRUE
    ELSE IF "selected_equity_name" \notin DOMAIN session THEN TRUE
    ELSE session["selected_equity_name"] = ""

\* C11: while selected_equity_data or selected_equity_name is absent or
\* empty, a run of the analysis page or of the trends page does nothing but
\* show its informational message and stop: no symbol is resolved, no request
\* is sent, no history is loaded, nothing else is rendered and no exception
\* reaches the script.
C11_GuardStops ==
    SelectionMissing =>
        /\ tvPc \in {"idle", "stopped"}
        /\ trendsPc \in {"idle", "stopped"}
        /\ requests = <<>>
        /\ tvSymbol = None
        /\ tvLogo = None
        /\ upstream = None
        /\ history = None
        /\ ~raised
        /\ ~trendsRaised
        /\ tvPc = "stopped" =>
              elements = << [kind |-> "info", text |-> analysis_info] >>
        /\ trendsPc = "stopped" =>
              elements = << [kind |-> "info", text |-> trends_info] >>
        /\ (tvPc = "idle" /\ trendsPc = "idle") => elements = <<>>

\* C11 witness: a row with an empty name was selected and the trends page
\* was opened: it stopped at the guard with its message.
C11_Witness ==
    /\ "selected_equity_data" \in DOMAIN session
    /\ session["selected_equity_name"] = ""
    /\ trendsPc = "stopped"
    /\ elements = << [kind |-> "info", text |-> trends_info] >>

\* the history lookup of the current run failed with a LookupError (the
\* class itself or its subclass KeyError)
LookupFailed ==
    IF upstream = None THEN FALSE
    ELSE Val(upstream).outcome \in {"LookupError", "KeyError"}

\* C12: when the history lookup fails with a lookup error, load_history
\* returns an empty table and no exception reaches the script; the page run
\* renders no trend chart and ends on the message "No snapshot data
\* available.".
C12_LookupFailureIsEmpty ==
    LookupFailed =>
        /\ ~trendsRaised
        /\ history # None
        /\ Val(history).rows = <<>>
        /\ trendsPc \in {"render_header", "check_empty", "stopped"}
        /\ \A k \in DOMAIN elements : elements[k].kind \in {"header", "info"}
        /\ trendsPc = "stopped" =>
              /\ elements # <<>>
              /\ elements[Len(elements)]
                    = [kind |-> "info", text |-> "No snapshot data available."]

\* C12 witness: the lookup raised LookupError and the run ended with the
\* header and the empty-state message.
C12_Witness ==
    /\ upstream = Some([outcome |-> "LookupError", snapshots |-> <<>>])
    /\ trendsPc = "stopped"
    /\ Len(elements) = 2
    /\ elements[1].kind = "header"
    /\ elements[2].text = "No snapshot data available."


---------------------------------------------------------------------------
(* Display formatters *)

\* the last call was of this formatter
FmtCalled(name) == fmtCall # None /\ Val(fmtCall).formatter = name

\* finite amounts and the text fmt_currency owes for each: the suffix of
\* the largest threshold reached with two decimals of the quotient, and
\* below a million the amount with separators and two decimals
CurrencyExamples ==
    {<<Number(15, 8), "$1.50B">>, <<Number(425, -1), "$42.50">>,
     <<Number(1, 12), "$1.00T">>, <<Number(2346, 9), "$2.35T">>,
     <<Number(1, 9), "$1.00B">>, <<Number(-25, 8), "$-2.50B">>,
     <<Number(1, 6), "$1.00M">>,
     <<Number(99999999, -2), "$999,999.99">>,
     <<Number(5, 5), "$500,000.00">>, <<Number(123456, -2), "$1,234.56">>,
     <<Number(1234, 0), "$1,234.00">>, <<Number(99996, -3), "$100.00">>,
     <<Number(152, -1), "$15.20">>, <<Number(1525, -4), "$0.15">>,
     <<Number(0, 0), "$0.00">>, <<Number(-1, -3), "$-0.00">>}

\* C14: fmt_currency returns "N/A" for None; a finite amount is printed
\* with the suffix of the largest of 1e12 (T), 1e9 (B), 1e6 (M) that its
\* absolute value reaches, divided by it, with two decimals, and below 1e6
\* with thousands separators and two decimals: 1,500,000,000 is "$1.50B"
\* and 42.5 is "$42.50".
C14_CurrencyFormat ==
    FmtCalled("fmt_currency") =>
        LET call == Val(fmtCall)
        IN  /\ call.value = NoneValue => call.answer = returns("N/A")
            /\ \A example \in CurrencyExamples :
                  call.value = example[1]
                      => call.answer = returns(example[2])

\* fmt_currency was called with 1,500,000,000 and answered "$1.50B"
C14_Witness ==
    fmtCall = Some([formatter |-> "fmt_currency", value |-> Number(15, 8),
                    answer |-> returns("$1.50B")])

\* non-null values that are no number, and the text str() gives for each
NotNumbers ==
    {<<Str(<<"a", "b", "c">>), "abc">>, <<Str(<<>>), "">>,
     <<Str(<<"1", ",", "2", "3", "4">>), "1,234">>,
     <<List(<<"[", "]">>), "[]">>}

\* C13 as stated: every formatter, given a non-null value that is no
\* number, returns the stringified raw value and does not raise.
C13_AsStated ==
    fmtCall # None =>
        \A pair \in NotNumbers :
            Val(fmtCall).value = pair[1]
                => Val(fmtCall).answer = returns(pair[2])

\* C13: fmt_number and fmt_ratio, given a non-null value that is no
\* number, return the stringified raw value and do not raise; fmt_currency,
\* fmt_pct and fmt_large_number, which coerce nothing, raise TypeError or
\* ValueError on such a value.
C13_CoercionFallback ==
    fmtCall # None =>
        \A pair \in NotNumbers :
            Val(fmtCall).value = pair[1] =>
                IF Val(fmtCall).formatter \in {"fmt_number", "fmt_ratio"}
                THEN Val(fmtCall).answer = returns(pair[2])
                ELSE Val(fmtCall).answer.exception
                         \in {"TypeError", "ValueError"}

\* fmt_ratio was called with the text "abc" and answered "abc"
C13_Witness ==
    fmtCall = Some([formatter |-> "fmt_ratio",
                    value |-> Str(<<"a", "b", "c">>),
                    answer |-> returns("abc")])


---------------------------------------------------------------------------
(* Independence of the consistency findings *)

\* the findings computed so far in this run, in the order of the page
AllFindings ==
    (IF crossField = None THEN <<>> ELSE Val(crossField))
    \o (IF ratio = None THEN <<>> ELSE Val(ratio))
    \o (IF plausibility = None THEN <<>> ELSE Val(plausibility))

\* the equity list in every order
Rearrangements ==
    {[i \in Records |-> equities[p[i]]] :
        p \in {q \in [Records -> Records] :
                  \A i, j \in Records : q[i] = q[j] => i = j}}

\* the counts of a tuple of findings
Counts(findings) == [k \in DOMAIN findings |-> findings[k].count]

\* C21: every finding is evaluated over the full equity list: its total is
\* the number of equities, its count lies between 0 and the total and is the
\* number of equities its predicate accepts, whatever other findings have
\* been computed in the run; the counts are the same for the list in any
\* other order; and a complete run has 15 findings.
C21_FindingsIndependent ==
    /\ \A k \in DOMAIN AllFindings :
          LET finding == AllFindings[k]
          IN  /\ finding.total = Len(equities)
              /\ finding.count \in 0..finding.total
              /\ finding.count =
                    Cardinality({i \in Records :
                        predicate_call(finding.description, equities[i])})
    /\ \A eqs \in Rearrangements :
          /\ crossField # None
                => Counts(run_cross_field_checks(eqs))
                       = Counts(Val(crossField))
          /\ ratio # None
                => Counts(run_ratio_checks(eqs)) = Counts(Val(ratio))
          /\ plausibility # None
                => Counts(run_plausibility_checks(eqs))
                       = Counts(Val(plausibility))
    /\ pc = "done" => Len(AllFindings) = 15

\* C21 witness: a run over a record no plausibility check accepts followed
\* by one with an extreme dividend yield, which is counted
C21_Witness ==
    /\ pc = "done"
    /\ equities = <<AtThresholds, AllFlagged>>
    /\ Len(AllFindings) = 15
    /\ AllFindings[12].description = "Extreme dividend yield (>100%)"
    /\ AllFindings[12].count = 1
    /\ AllFindings[12].total = 2


---------------------------------------------------------------------------
(* Fields left out of the sector heatmap *)

\* the financial attributes heatmap_fields leaves out
ExcludedAttrs ==
    {financial_fields[j][1] : j \in DOMAIN financial_fields}
        \ {heatmap_fields[j][1] : j \in DOMAIN heatmap_fields}

\* C23 as stated: heatmap_fields leaves out exactly industry, sector and
\* currency of the 31 financial fields, and in every sector group of the
\* heatmap each of the three is populated for every record of the group.
C23_AsStated ==
    /\ Len(financial_fields) = 31
    /\ ExcludedAttrs = {"industry", "sector", "currency"}
    /\ heatmap # None =>
          \A k \in DOMAIN Val(heatmap).sectors :
              \A i \in Members(Val(heatmap).sectors[k]) :
                  \A attr \in ExcludedAttrs : has_field(equities[i], attr)


---------------------------------------------------------------------------
(* Completeness against financial coverage *)

\* C29: computed on the same equity list, the per-equity completeness
\* scores add up to the populated counts of the 31 financial field
\* coverages, and the mean completeness divided by 31 is the overall
\* financial coverage (as a percentage: times 100).
C29_CompletenessIsCoverage ==
    (report # None /\ completeness # None) =>
        LET coverage == Val(report).financial_coverage
            scores == Val(completeness)
        IN  /\ Len(coverage) = 31
            /\ SumSeq(scores.values) = SumCounts(coverage)
            /\ FracEq(Frac(scores.mean.num * 100, scores.mean.den * 31),
                      _overall_coverage(coverage))
            /\ summary # None
                  => FracEq(Frac(scores.mean.num * 100, scores.mean.den * 31),
                            Val(summary).financials_pct)

\* C29 witness: a record with 15 fields and one with 4, the same record
\* twice in a later run
C29_Witness ==
    /\ pc = "done"
    /\ \/ /\ equities = <<Populated(15), ZeroCap>>
          /\ SumSeq(Val(completeness).values) = 19
          /\ SumCounts(Val(report).financial_coverage) = 19
       \/ /\ equities = <<ZeroCap, ZeroCap>>
          /\ SumCounts(Val(report).financial_coverage) = 8


---------------------------------------------------------------------------
(* Snapshot date of the coverage report *)

\* the snapshot dates of the records that have one
SnapshotDates ==
    {Val(equities[i].snapshot_date) :
        i \in {r \in Records : equities[r].snapshot_date # None}}

\* C24 as stated: the snapshot date of the coverage report is the latest
\* snapshot date among the equities, and None when there are none.
C24_AsStated ==
    report # None =>
        Val(report).snapshot_date =
            IF SnapshotDates = {} THEN None
            ELSE Some(CHOOSE d \in SnapshotDates :
                          \A other \in SnapshotDates : other <= d)


---------------------------------------------------------------------------
(* MIC codes and scanner markets *)

\* the first position of list whose code belongs to market
FirstVenue(list, market) ==
    CHOOSE k \in DOMAIN list :
        /\ list[k] \in DOMAIN _mic_to_tv_market_map
        /\ _mic_to_tv_market_map[list[k]] = market
        /\ \A j \in 1..(k - 1) :
              list[j] \in DOMAIN _mic_to_tv_market_map
                  => _mic_to_tv_market_map[list[j]] # market

\* texts that come from no row, and the markets owed for each
MicTextExamples ==
    {<<Some(<<"XNYS", ",", "XLON">>), <<"america", "uk">> >>,
     <<Some(<<" ", "XLON", " ", ",", " ", " ", "XNYS", " ">>),
       <<"uk", "america">> >>,
     <<Some(<<"XETR", ",", ",", "XNAS", ",", "XETR">>),
       <<"germany", "america">> >>,
     <<Some(<<"ZZZZ", ",", "XHKG">>), <<"hongkong">> >>,
     <<Some(<<" ">>), <<>> >>}

\* C27: _mics_to_tv_markets gives the markets of the known MICs of its
\* text, each once, in the order of first occurrence; whitespace around a
\* code is ignored, unknown codes are dropped, None and the empty string
\* give the empty list; and for the ", "-joined cell of a grid row the
\* markets are those of the MIC list of the record.
C27_MicsToMarkets ==
    micsMarkets # None =>
        LET result == Val(micsMarkets)
        IN  /\ \A i, j \in DOMAIN result : result[i] = result[j] => i = j
            /\ (micsText = None \/ micsText = Some(<<>>)) => result = <<>>
            /\ micsList # None =>
                  LET list == Val(micsList)
                      known == {k \in DOMAIN list :
                                   list[k] \in DOMAIN _mic_to_tv_market_map}
                  IN  /\ Range(result) =
                            {_mic_to_tv_market_map[list[k]] : k \in known}
                      /\ \A i, j \in DOMAIN result :
                            i < j => FirstVenue(list, result[i])
                                         < FirstVenue(list, result[j])
            /\ micsList = None =>
                  \A example \in MicTextExamples :
                      micsText = example[1] => result = example[2]

\* C27 witness: the cell "XLON, ZZZZ, XNAS" of a row gives uk, america
C27_Witness ==
    /\ micsList = Some(<<"XLON", "ZZZZ", "XNAS">>)
    /\ micsText = Some(<<"XLON", ",", " ", "ZZZZ", ",", " ", "XNAS">>)
    /\ micsMarkets = Some(<<"uk", "america">>)


---------------------------------------------------------------------------
(* Selection and grid options of the universe page *)

\* both selection keys are unset, or both are set from one row
SelectionConsistent(state) ==
    \/ state = <<>>
    \/ /\ DOMAIN state = {"selected_equity_name", "selected_equity_data"}
       /\ state["selected_equity_name"] = state["selected_equity_data"]["Name"]

\* C25: the two selection keys are always both unset or both written from
\* one row (the name is data["Name"]); the session state changes only when a
\* row of the grid on display is selected, and the page is left for the
\* equity analysis page only with that row stored; with no row selected
\* neither the selection nor the page changes.
C25_SelectionStored ==
    /\ [](SelectionConsistent(session))
    /\ [][/\ (session' # session /\ session' # <<>>) =>
                /\ page = "universe"
                /\ page' = "equity_analysis"
                /\ \E row \in Range(Val(universeDf).rows) :
                      session' = selected_row_state(row)
          /\ (page = "universe" /\ page' = "equity_analysis") =>
                /\ session' # <<>>
                /\ session'["selected_equity_data"]
                       \in Range(Val(universeDf).rows)
          /\ (uniPc \in {"display_grid", "done"} /\ uniPc' = "done") =>
                (session' = session /\ page' = page)]_vars

\* C25 witness: the row of ACME was selected and the page was left
C25_Witness ==
    /\ page = "equity_analysis"
    /\ uniPc = "left"
    /\ session # <<>>
    /\ session["selected_equity_name"] = "ACME"
    /\ session["selected_equity_data"]["Share Class FIGI"] = "BBG1"

\* C26: the grid options are built at most once per session: the first call
\* of get_cached_grid_options builds and stores them, and a later call of
\* the same session builds nothing and returns the stored options, whatever
\* DataFrame is passed.
C26_OptionsBuiltOnce ==
    /\ [](builds <= 1 /\ (grid_options = None <=> builds = 0))
    /\ [][uniPc = "get_cached_grid_options" =>
            IF grid_options = None
            THEN /\ builds' = 1
                 /\ grid_options' =
                        Some(_build_grid_options(Val(universeDf)))
            ELSE /\ builds' = builds
                 /\ grid_options' = grid_options]_vars

\* C26 witness: the page has run before (the quick filter is set), another
\* DataFrame was loaded and get_cached_grid_options has returned again
C26_Witness ==
    /\ uniPc = "display_grid"
    /\ builds = 1
    /\ grid_options # None
    /\ Val(grid_options).quickFilterText = Some("acme")
    /\ Len(Val(universeDf).rows) = 2

---------------------------------------------------------------------------
(* The memoized loaders over time *)

\* what the call of a report loader in this step returned to the page
Returned(loader) ==
    CASE loader = "load_coverage_report" -> report'
      [] loader = "load_cross_field_consistency" -> crossField'
      [] loader = "load_financial_ratio_consistency" -> ratio'
      [] loader = "load_value_plausibility" -> plausibility'
      [] loader = "load_market_cap_distribution" -> marketCap'
      [] loader = "load_completeness_distribution" -> completeness'
      [] loader = "load_sector_field_coverage" -> heatmap'

\* any two times of the set are at least ttl seconds apart
Apart(instants, ttl) == \A s, t \in instants : s < t => t - s >= ttl

\* the upstream sources are called at most once per window
OncePerWindow ==
    /\ Apart(retrievals, ttl_reports)
    /\ Apart(historyRetrievals, ttl_history)

\* this step is a call of the report loader pc names
ReportLoaderCalled == pc \in ReportLoaders /\ pc' # pc

\* this step is a call of load_history
HistoryCalled ==
    <<upstream, history, trendsRaised>>' # <<upstream, history, trendsRaised>>

\* a call of load_history: within 900 s of the entry the entry is returned
\* and the upstream is not called; otherwise the upstream is called and what
\* the body returns is stored; a body that raises stores nothing
HistoryCallMemoized ==
    IF historyMemo # None /\ clock - Val(historyMemo).stored_at < ttl_history
    THEN /\ upstream' = None
         /\ history' = Some(Val(historyMemo).value)
         /\ UNCHANGED <<historyMemo, historyRetrievals>>
    ELSE /\ upstream' # None
         /\ IF trendsRaised'
            THEN UNCHANGED <<historyMemo, historyRetrievals>>
            ELSE /\ historyMemo' # None
                 /\ Val(historyMemo').stored_at = clock
                 /\ Val(historyMemo').retrieved_at = clock
                 /\ history' = Some(Val(historyMemo').value)
                 /\ historyRetrievals' = historyRetrievals \cup {clock}

---------------------------------------------------------------------------
(* Agreement of the cards of the integrity report *)

\* C28 as stated: on every render the total of each consistency finding and
\* the count of the completeness distribution equal total_equities of the
\* coverage report
C28_AsStated ==
    report # None =>
        /\ \A k \in DOMAIN AllFindings :
              AllFindings[k].total = Val(report).total_equities
        /\ completeness # None
              => Val(completeness).count = Val(report).total_equities

---------------------------------------------------------------------------
(* Memoized fallbacks of the TradingView lookups *)

\* this step is a call of resolve_tv_symbol
ResolveCalled ==
    /\ tvPc \in {"idle", "done", "failed"}
    /\ clock' = clock
    /\ tvPc' \in {"fetch_logo", "failed"}

\* this step is a call of fetch_logo
LogoCalled == tvPc = "fetch_logo" /\ tvPc' \in {"render", "failed"}

\* an entry stored after a failed lookup holds the fallback: the ticker the
\* function was called with, no logo
FallbacksStored ==
    /\ \A args \in ResolveArgs :
          (symbolMemo[args] # None /\ Val(symbolMemo[args]).failed)
             => Val(symbolMemo[args]).value = args.symbol
    /\ \A tv_sym \in LogoArgs :
          (logoMemo[tv_sym] # None /\ Val(logoMemo[tv_sym]).failed)
             => Val(logoMemo[tv_sym]).value = None

\* C30: a symbol resolution or logo fetch that ended in its fallback after a
\* network failure is memoized like a success.  Every call returns and
\* leaves an entry for its arguments; a call with the same arguments less
\* than 3600 s after the entry was stored returns the entry's value, the
\* original ticker or no logo when the lookup had failed, sends no request
\* and leaves the caches as they are; requests are sent again only by a call
\* made when the entry has expired, and that call stores its result anew.
C30_FallbackMemoized ==
    /\ []FallbacksStored
    /\ [][ResolveCalled =>
            LET old == symbolMemo[tvArgs']
            IN  /\ tvPc' = "fetch_logo"
                /\ IF old # None
                      /\ clock - Val(old).stored_at < ttl_tradingview
                   THEN /\ requests' = <<>>
                        /\ tvSymbol' = Some(Val(old).value)
                        /\ Val(old).failed => tvSymbol' = Some(tvArgs'.symbol)
                        /\ UNCHANGED <<symbolMemo, logoMemo>>
                   ELSE /\ requests' # <<>>
                        /\ symbolMemo'[tvArgs'] # None
                        /\ Val(symbolMemo'[tvArgs']).stored_at = clock
                        /\ tvSymbol' = Some(Val(symbolMemo'[tvArgs']).value)]_vars
    /\ [][LogoCalled =>
            LET tv_sym == Val(tvSymbol)
                old == logoMemo[tv_sym]
            IN  /\ tvPc' = "render"
                /\ IF old # None
                      /\ clock - Val(old).stored_at < ttl_tradingview
                   THEN /\ requests' = requests
                        /\ tvLogo' = Some(Val(old).value)
                        /\ Val(old).failed => tvLogo' = Some(None)
                        /\ UNCHANGED <<symbolMemo, logoMemo>>
                   ELSE /\ requests' = Append(requests, logo_request(tv_sym))
                        /\ logoMemo'[tv_sym] # None
                        /\ Val(logoMemo'[tv_sym]).stored_at = clock
                        /\ tvLogo' = Some(Val(logoMemo'[tv_sym]).value)]_vars

\* C30 witness: both lookups failed at 0 s; the page run at 2000 s got the
\* ticker and no logo from the entries and sent no request
C30_Witness ==
    /\ clock = 2000
    /\ tvPc = "render"
    /\ requests = <<>>
    /\ tvSymbol = Some("ACM")
    /\ tvLogo = Some(None)
    /\ symbolMemo[tvArgs] =
          Some([value |-> "ACM", stored_at |-> 0, failed |-> TRUE])
    /\ logoMemo["ACM"] =
          Some([value |-> None, stored_at |-> 0, failed |-> TRUE])


===========================================================================
